---- MODULE Spec2Model ----
(***************************************************************************)
(* Smart-home energy monitoring: the conversational query pipeline         *)
(* (app/services/chat_service.py) over the device and telemetry tables     *)
(* (app/services/device_service.py, app/services/telemetry_service.py).    *)
(*                                                                         *)
(* Text produced by the language model is a sequence of characters (one-   *)
(* character strings); a JSON document inside such a text is one element   *)
(* of the sequence (the document's text), so that strip / startswith /     *)
(* endswith / slicing act on the characters around it as in the code.      *)
(***************************************************************************)
EXTENDS Integers, Sequences, FiniteSets, TLC

VARIABLES
    devices,        \* table "devices": sequence of rows, in row order
    telemetry,      \* table "telemetry": sequence of rows, in row order
    next_device_pk, \* primary-key sequence of "devices"
    next_reading_pk,\* primary-key sequence of "telemetry"
    pc,             \* position of the request being processed
    state,          \* InternalState of the request (a dict: key -> value)
    result,         \* what process_query returned (or that it raised)
    trace,          \* graph nodes entered and collaborator calls made, in order
    now_used,       \* datetime.utcnow() read by the handler of this request
    llm_response,   \* pure-function check: the NLM outcome handed in
    fn_out,         \* pure-function check: what the function returned
    rank_out,       \* result of the last ranking call made through the REST route
    rank_again,     \* result of the same ranking call made a second time
    ingest_out,     \* response to the last POST /api/telemetry
    served,         \* history: a chat request has been answered before
    seen,           \* what the handler's statements have read so far
    pending         \* telemetry rows inserted by a transaction not yet committed

vars == <<devices, telemetry, next_device_pk, next_reading_pk, pc, state, result,
          trace, now_used, llm_response, fn_out, rank_out, rank_again, ingest_out,
          served, seen, pending>>

----------------------------------------------------------------------------
(* Python values *)

None == [k |-> "None"]
PyNum(n) == [k |-> "num", v |-> n]
PyStr(s) == [k |-> "str", v |-> s]
PyBool(b) == [k |-> "bool", v |-> b]
PyList(l) == [k |-> "list", v |-> l]
PyDict(f) == [k |-> "dict", v |-> f]
EmptyDict == PyDict(<<>>)

\* the outcome of an operation that raised an exception
Raised == [k |-> "raised"]
IsRaised(r) == DOMAIN r = {"k"}

\* bool(v) as Python's "if v:" / "not v" / "v or 0" see it
NotNone(v) == v # None
Truthy(v) ==
    CASE v.k = "None" -> FALSE
      [] v.k = "num" -> v.v # 0
      [] v.k = "str" -> v.v # ""
      [] v.k = "list" -> v.v # <<>>
      [] v.k = "dict" -> DOMAIN v.v # {}
      [] OTHER -> TRUE

\* d.get(key, default) on a dict; on any other value the attribute is missing
HasGet(d) == d.k = "dict"
DictGet(d, key, default) == IF key \in DOMAIN d.v THEN d.v[key] ELSE default

\* {**s, key: value}
Upd(s, key, value) == [x \in DOMAIN s \cup {key} |-> IF x = key THEN value ELSE s[x]]
\* s.get(key)
StateGet(s, key) == IF key \in DOMAIN s THEN s[key] ELSE None

----------------------------------------------------------------------------
(* Character-level string operations (str.strip, str.upper, str.replace) *)

LowerLetters == <<"a","b","c","d","e","f","g","h","i","j","k","l","m",
                  "n","o","p","q","r","s","t","u","v","w","x","y","z">>
UpperLetters == <<"A","B","C","D","E","F","G","H","I","J","K","L","M",
                  "N","O","P","Q","R","S","T","U","V","W","X","Y","Z">>

IsSpace(c) == c \in {" ", "\t", "\n", "\r"}

UpperChar(c) ==
    IF \E i \in DOMAIN LowerLetters : LowerLetters[i] = c
    THEN UpperLetters[CHOOSE i \in DOMAIN LowerLetters : LowerLetters[i] = c]
    ELSE c

RECURSIVE lstrip(_)
lstrip(s) == IF s # <<>> /\ IsSpace(Head(s)) THEN lstrip(Tail(s)) ELSE s

RECURSIVE rstrip(_)
rstrip(s) ==
    IF s # <<>> /\ IsSpace(s[Len(s)]) THEN rstrip(SubSeq(s, 1, Len(s) - 1)) ELSE s

strip(s) == rstrip(lstrip(s))

upper(s) == [i \in DOMAIN s |-> UpperChar(s[i])]

replace(s, old, new) == [i \in DOMAIN s |-> IF s[i] = old THEN new ELSE s[i]]

startswith(s, prefix) ==
    Len(s) >= Len(prefix) /\ SubSeq(s, 1, Len(prefix)) = prefix

endswith(s, suffix) ==
    Len(s) >= Len(suffix) /\ SubSeq(s, Len(s) - Len(suffix) + 1, Len(s)) = suffix

----------------------------------------------------------------------------
(* The NLM collaborator: llm.invoke either raises or returns a text *)

LLMRaises == [raises |-> TRUE, content |-> <<>>]
LLMReturns(text) == [raises |-> FALSE, content |-> text]

----------------------------------------------------------------------------
(* Intent classification *)

\* class QueryIntent(Enum): the member names, in declaration order
QueryIntent ==
    <<"ENERGY_USAGE", "DEVICE_COMPARISON", "TOP_CONSUMERS", "ENERGY_SUMMARY",
      "DEVICE_LIST", "GREETING", "THANKS", "GOODBYE", "OFF_TOPIC">>

Intents == {QueryIntent[i] : i \in DOMAIN QueryIntent}

\* the characters of each member name
NameChars(intent) ==
    CASE intent = "ENERGY_USAGE" ->
            <<"E","N","E","R","G","Y","_","U","S","A","G","E">>
      [] intent = "DEVICE_COMPARISON" ->
            <<"D","E","V","I","C","E","_","C","O","M","P","A","R","I","S","O","N">>
      [] intent = "TOP_CONSUMERS" ->
            <<"T","O","P","_","C","O","N","S","U","M","E","R","S">>
      [] intent = "ENERGY_SUMMARY" ->
            <<"E","N","E","R","G","Y","_","S","U","M","M","A","R","Y">>
      [] intent = "DEVICE_LIST" ->
            <<"D","E","V","I","C","E","_","L","I","S","T">>
      [] intent = "GREETING" -> <<"G","R","E","E","T","I","N","G">>
      [] intent = "THANKS" -> <<"T","H","A","N","K","S">>
      [] intent = "GOODBYE" -> <<"G","O","O","D","B","Y","E">>
      [] intent = "OFF_TOPIC" -> <<"O","F","F","_","T","O","P","I","C">>

\* QueryIntent[intent_str]: the member of that name, or KeyError
QueryIntentByName(intent_str) ==
    IF \E i \in Intents : NameChars(i) = intent_str
    THEN CHOOSE i \in Intents : NameChars(i) = intent_str
    ELSE "KeyError"

\* the normalisation of the NLM's answer before the lookup
NormalizeNoReplace(content) == upper(strip(content))
NormalizeIntentStr(content) == replace(upper(strip(content)), " ", "_")

classify_intent(response) ==
    IF response.raises
    THEN "OFF_TOPIC"
    ELSE LET intent_str == NormalizeIntentStr(response.content)
             member == QueryIntentByName(intent_str)
         IN IF member = "KeyError" THEN "OFF_TOPIC" ELSE member

----------------------------------------------------------------------------
(* Parameter extraction *)

\* the grave accent U+0060 (the character cannot be written in a string literal
\* of this language, so the element that stands for it is spelled out)
Backtick == "U+0060"
FenceJson == <<Backtick, Backtick, Backtick, "j","s","o","n">>
Fence == <<Backtick, Backtick, Backtick>>

\* The JSON documents the NLM of this model can emit, each one element of a text.
JsonDocs ==
    { "{}",
      "{\"device_name\": \"fridge\", \"time_period\": \"today\", \"limit\": 50}",
      "{\"device_name\": \"lamp\", \"time_period\": \"yesterday\", \"limit\": 1}",
      "{\"device_name\": null, \"time_period\": null, \"limit\": null}",
      "{\"device_name\": \"FRIDGE\", \"time_period\": \"yesterday\"}",
      "{\"device_name\": \"fridge\", \"time_period\": \"last_week\"}",
      "null", "50", "[]", "\"fridge\"" }

\* what json.loads makes of each document
JsonDocValue(doc) ==
    CASE doc = "{}" -> EmptyDict
      [] doc = "{\"device_name\": \"fridge\", \"time_period\": \"today\", \"limit\": 50}" ->
            PyDict([device_name |-> PyStr("fridge"), time_period |-> PyStr("today"),
                    limit |-> PyNum(50)])
      [] doc = "{\"device_name\": \"lamp\", \"time_period\": \"yesterday\", \"limit\": 1}" ->
            PyDict([device_name |-> PyStr("lamp"), time_period |-> PyStr("yesterday"),
                    limit |-> PyNum(1)])
      [] doc = "{\"device_name\": null, \"time_period\": null, \"limit\": null}" ->
            PyDict([device_name |-> None, time_period |-> None, limit |-> None])
      [] doc = "{\"device_name\": \"FRIDGE\", \"time_period\": \"yesterday\"}" ->
            PyDict([device_name |-> PyStr("FRIDGE"), time_period |-> PyStr("yesterday")])
      [] doc = "{\"device_name\": \"fridge\", \"time_period\": \"last_week\"}" ->
            PyDict([device_name |-> PyStr("fridge"), time_period |-> PyStr("last_week")])
      [] doc = "null" -> None
      [] doc = "50" -> PyNum(50)
      [] doc = "[]" -> PyList(<<>>)
      [] doc = "\"fridge\"" -> PyStr("fridge")

JSONDecodeError == [k |-> "JSONDecodeError"]

\* json.loads: one document, JSON whitespace allowed around it; anything else
\* (no document, extra data, characters that are no JSON) is a decode error
json_loads(content) ==
    LET body == strip(content)
    IN IF Len(body) = 1 /\ body[1] \in JsonDocs
       THEN JsonDocValue(body[1])
       ELSE JSONDecodeError

\* the text handed to json.loads: fences cut off, or "" when nothing is left
Unfence(text) ==
    LET c0 == strip(text)
        c1 == IF startswith(c0, FenceJson) THEN SubSeq(c0, 8, Len(c0)) ELSE c0
        c2 == IF endswith(c1, Fence) THEN SubSeq(c1, 1, Len(c1) - 3) ELSE c1
    IN strip(c2)

parse_energy_query_no_except(response) ==
    IF response.raises
    THEN Raised
    ELSE LET content == Unfence(response.content)
         IN IF content = <<>> THEN EmptyDict ELSE json_loads(content)

parse_energy_query(response) ==
    IF response.raises
    THEN EmptyDict
    ELSE LET content == Unfence(response.content)
         IN IF content = <<>>
            THEN EmptyDict
            ELSE LET parsed == json_loads(content)
                 IN IF parsed = JSONDecodeError THEN EmptyDict ELSE parsed

----------------------------------------------------------------------------
(* Numbers: a float is kept as an exact fraction <<numerator, denominator>> *)

RECURSIVE Gcd(_, _)
Gcd(a, b) == IF b = 0 THEN a ELSE Gcd(b, a % b)

Rat(n, d) == LET g == Gcd(n, d) IN IF g = 0 THEN <<0, 1>> ELSE <<n \div g, d \div g>>
RatLess(a, b) == a[1] * b[2] < b[1] * a[2]

\* s[lo] + ... + s[hi], by halves
RECURSIVE RangeSum(_, _, _)
RangeSum(s, lo, hi) ==
    IF lo > hi THEN 0
    ELSE IF lo = hi THEN s[lo]
    ELSE LET mid == (lo + hi) \div 2
         IN RangeSum(s, lo, mid) + RangeSum(s, mid + 1, hi)

SumOf(s) == RangeSum(s, 1, Len(s))

MaxOf(s) == s[CHOOSE i \in DOMAIN s : \A j \in DOMAIN s : s[j] <= s[i]]

MinOf(s) == s[CHOOSE i \in DOMAIN s : \A j \in DOMAIN s : s[j] >= s[i]]

NoOrder(s) == s

\* rows are <<key, row>> pairs, key a fraction: ORDER BY key DESC.  Rows of equal
\* key stay in the order the database produced them: a row comes after the rows
\* of greater key and after the rows of equal key produced before it.
\* (\o <<>> writes a sequence out in full, once)
OrderByDesc(s) ==
    LET rows == s \o <<>>
        before == [i \in DOMAIN rows |->
                    Cardinality({j \in DOMAIN rows :
                        \/ RatLess(rows[i][1], rows[j][1])
                        \/ /\ ~RatLess(rows[j][1], rows[i][1])
                           /\ j < i})] \o <<>>
        at == [k \in DOMAIN rows |-> CHOOSE i \in DOMAIN rows : before[i] = k - 1]
    IN [k \in DOMAIN rows |-> rows[at[k]]]

\* query.limit(n): None is no LIMIT clause
NoLimit(rows, limit) == rows
Limit(rows, limit) ==
    IF limit = None THEN rows
    ELSE SubSeq(rows, 1, IF limit.v < Len(rows) THEN limit.v ELSE Len(rows))

----------------------------------------------------------------------------
(* Time: seconds since the epoch, UTC *)

DaySeconds == 86400

PyTime(t) == [k |-> "datetime", v |-> t]

\* now.replace(hour=0, minute=0, second=0, microsecond=0)
SameInstant(t) == t
Midnight(t) == t - (t % DaySeconds)

get_time_range_two_periods(time_period, now) ==
    CASE time_period = PyStr("today") ->
            <<PyTime(Midnight(now)), PyTime(now)>>
      [] time_period = PyStr("yesterday") ->
            LET start == Midnight(now - DaySeconds)
            IN <<PyTime(start), PyTime(start + 23 * 3600 + 59 * 60 + 59)>>
      [] OTHER -> <<None, None>>

get_time_range(time_period, now) ==
    CASE time_period = PyStr("today") ->
            <<PyTime(Midnight(now)), PyTime(now)>>
      [] time_period = PyStr("yesterday") ->
            LET start == Midnight(now - DaySeconds)
            IN <<PyTime(start), PyTime(start + 23 * 3600 + 59 * 60 + 59)>>
      [] time_period = PyStr("last_week") ->
            <<PyTime(Midnight(now - 7 * DaySeconds)), PyTime(now)>>
      [] time_period = PyStr("last_month") ->
            <<PyTime(Midnight(now - 30 * DaySeconds)), PyTime(now)>>
      [] OTHER -> <<None, None>>

----------------------------------------------------------------------------
(* Storage: the tables and the queries of the services.  D is the devices    *)
(* table in the order the database hands its rows out (a query without ORDER *)
(* BY promises no order), T the telemetry table.                             *)

\* str(uuid.uuid4()) of the device whose primary key is pk
DeviceUuid(pk) == "uuid-" \o ToString(pk)

\* str.lower() on the names and device names of this model
StrLower(s) ==
    CASE s = "Fridge" -> "fridge"
      [] s = "FRIDGE" -> "fridge"
      [] s = "TV" -> "tv"
      [] OTHER -> s

NoWindow(t, start_time, end_time) == TRUE
InWindow(t, start_time, end_time) ==
    /\ Truthy(start_time) => t.timestamp >= start_time.v
    /\ Truthy(end_time) => t.timestamp <= end_time.v

\* DeviceService.get_user_devices
get_all_devices(D, user_id) == D
get_active_devices(D, user_id) ==
    SelectSeq(D, LAMBDA d : d.user_id = user_id /\ d.is_active)
get_user_devices(D, user_id) == SelectSeq(D, LAMBDA d : d.user_id = user_id)

\* db.query(Device).filter(device_id == .., user_id == ..).first()
FindAnyonesDevice(D, device_id, user_id) ==
    SelectSeq(D, LAMBDA d : d.device_id = device_id)
FindOwnedDevice(D, device_id, user_id) ==
    SelectSeq(D, LAMBDA d : d.device_id = device_id /\ d.user_id = user_id)

\* TelemetryService.get_telemetry_by_device
get_telemetry_by_device(D, T, device_id, user_id, start_time, end_time, limit) ==
    LET found == FindOwnedDevice(D, device_id, user_id)
    IN IF found = <<>>
       THEN Raised
       ELSE LET device == found[1]
                rows == SelectSeq(T, LAMBDA t : /\ t.device_id = device.id
                                               /\ InWindow(t, start_time, end_time))
                keyed == [i \in DOMAIN rows |-> <<(<<rows[i].timestamp, 1>>), rows[i]>>]
                sorted == OrderByDesc(keyed)
            IN [k |-> "rows", v |-> Limit([i \in DOMAIN sorted |-> sorted[i][2]], limit)]

\* TelemetryService.get_energy_summary for all devices of the user (device_id=None)
get_energy_summary(D, T, user_id, start_time, end_time) ==
    LET devs == SelectSeq(D, LAMBDA d : d.user_id = user_id)
    IN IF devs = <<>>
       THEN [total_energy |-> 0, average_power |-> 0, device_count |-> 0]
       ELSE LET device_ids == {devs[i].id : i \in DOMAIN devs}
                rows == SelectSeq(T, LAMBDA t : /\ t.device_id \in device_ids
                                               /\ InWindow(t, start_time, end_time))
                w == [i \in DOMAIN rows |-> rows[i].energy_watts]
            IN [reading_count |-> Len(rows),
                average_power_watts |->
                    IF rows = <<>> THEN <<0, 1>> ELSE Rat(SumOf(w), Len(w)),
                max_power_watts |-> IF rows = <<>> THEN <<0, 1>> ELSE <<MaxOf(w), 1>>,
                min_power_watts |-> IF rows = <<>> THEN <<0, 1>> ELSE <<MinOf(w), 1>>,
                device_id |-> "all_devices"]

\* the rows of the join Device x Telemetry the ranking groups and averages
RankRows(D, T, user_id, start_time, end_time) ==
    SelectSeq(D, LAMBDA d : /\ d.user_id = user_id
                            /\ \E i \in DOMAIN T : /\ T[i].device_id = d.id
                                                   /\ InWindow(T[i], start_time, end_time))

\* func.avg(Telemetry.energy_watts) of one group
GroupAvg(T, d, start_time, end_time) ==
    LET rows == SelectSeq(T, LAMBDA t : /\ t.device_id = d.id
                                       /\ InWindow(t, start_time, end_time))
        w == [i \in DOMAIN rows |-> rows[i].energy_watts]
    IN Rat(SumOf(w), Len(w))

\* TelemetryService.get_top_consuming_devices
get_top_consuming_devices(D, T, user_id, limit, start_time, end_time) ==
    LET groups == RankRows(D, T, user_id, start_time, end_time)
        keyed == [i \in DOMAIN groups |->
                    <<GroupAvg(T, groups[i], start_time, end_time), groups[i]>>]
        rows == Limit(OrderByDesc(keyed), limit)
    IN [i \in DOMAIN rows |->
            [device_id |-> rows[i][2].device_id,
             name |-> rows[i][2].name,
             type |-> rows[i][2].device_type,
             average_power_watts |-> rows[i][1]]]

----------------------------------------------------------------------------
(* Answers.  An answer is the sequence of the pieces its f-string is made of: *)
(* literal text, and values formatted into it.  The bullet U+2022 that opens  *)
(* the lines of a summary is written * here.                                 *)

Lit(text) == [t |-> "lit", v |-> text]      \* literal text of the template
Fmt(value) == [t |-> "value", v |-> value]  \* {value}
Fmt1f(x) == [t |-> "1f", v |-> x]           \* {x:.1f}
Joined(names) == [t |-> "join", v |-> names] \* ', '.join(names)

\* whether the rendered piece has at least one character
PieceNonEmpty(p) ==
    CASE p.t = "lit" -> p.v # ""
      [] p.t = "join" -> \E i \in DOMAIN p.v : p.v[i] # ""
      [] p.t = "value" -> IF p.v.k = "str" THEN p.v.v # "" ELSE TRUE
      [] OTHER -> TRUE

SmallTalkIntents == {"GREETING", "THANKS", "GOODBYE", "OFF_TOPIC"}
ParsedIntents == {"ENERGY_USAGE", "DEVICE_COMPARISON", "TOP_CONSUMERS", "ENERGY_SUMMARY"}

GreetingText ==
    "Hello! I'm your smart home energy assistant. I can help you monitor your energy usage, compare devices, and find ways to save energy. What would you like to know about your energy consumption?"
ThanksText ==
    "You're welcome! Feel free to ask me anything about your energy usage anytime."
GoodbyeText ==
    "Goodbye! Have a great day and remember to monitor your energy usage!"
OffTopicText ==
    "I'm here to help you with energy monitoring questions. You can ask me about device energy usage, comparisons, or energy summaries."
ErrorText ==
    "Sorry, I encountered an error while processing your request. Please try again or rephrase your question."
FallbackText ==
    "I'm not sure I understood your question. I can help you with:\n"

generate_small_talk_response_default(s) == Upd(s, "answer", <<Lit(OffTopicText)>>)
generate_small_talk_response(s) ==
    LET intent == s["intent"]
        response == CASE intent = "GREETING" -> GreetingText
                      [] intent = "THANKS" -> ThanksText
                      [] intent = "GOODBYE" -> GoodbyeText
                      [] OTHER -> OffTopicText
    IN Upd(s, "answer", <<Lit(response)>>)

generate_fallback_response(s) == Upd(s, "answer", <<Lit(FallbackText)>>)

generate_error_response_with_data(s) ==
    Upd(Upd(s, "answer", <<Lit(ErrorText)>>), "data", [error |-> TRUE])
generate_error_response(s) == Upd(s, "answer", <<Lit(ErrorText)>>)

NamesOf(rows) == [i \in DOMAIN rows |-> rows[i].name]

\* D is the devices table as get_user_devices reads it, D2 as the ownership
\* check of get_telemetry_by_device reads it, T the telemetry table as the
\* reading query (or the aggregate of get_energy_summary) reads it
handle_energy_usage_query_at(s, parsed_query, D, D2, T, now) ==
    IF ~HasGet(parsed_query) THEN Raised
    ELSE
    LET device_name == DictGet(parsed_query, "device_name", None)
        time_period == DictGet(parsed_query, "time_period", PyStr("today"))
        window == get_time_range(time_period, now)
        devs == get_user_devices(D, s["user_id"])
    IN IF Truthy(device_name)
       THEN IF devs # <<>> /\ device_name.k # "str"
            THEN Raised     \* device_name.lower() on a value that has no lower()
            ELSE
            LET matches == SelectSeq(devs,
                    LAMBDA d : StrLower(d.name) = StrLower(device_name.v))
            IN IF matches = <<>>
               THEN Upd(s, "answer",
                        <<Lit("I couldn't find a device named '"), Fmt(device_name),
                          Lit("'. Here are your devices: "), Joined(NamesOf(devs))>>)
               ELSE
               LET target_device == matches[1]
                   fetched == get_telemetry_by_device(D2, T,
                        target_device.device_id, s["user_id"],
                        window[1], window[2], PyNum(100))
                   telemetry_data == fetched.v
               IN IF fetched = Raised THEN Raised
                  ELSE IF telemetry_data = <<>>
                  THEN Upd(s, "answer",
                           <<Lit("No energy data found for "), Fmt(device_name),
                             Lit(" in the specified time period.")>>)
                  ELSE
                  LET w == [i \in DOMAIN telemetry_data |->
                                telemetry_data[i].energy_watts]
                      avg_energy == Rat(SumOf(w), Len(w))
                      max_energy == <<MaxOf(w), 1>>
                  IN Upd(Upd(s, "answer",
                           <<Lit("Energy usage for "), Fmt(device_name), Lit(" ("),
                             Fmt(time_period), Lit("):\n"),
                             Lit("* Average power: "), Fmt1f(avg_energy), Lit(" watts\n"),
                             Lit("* Peak power: "), Fmt1f(max_energy), Lit(" watts\n"),
                             Lit("* Total readings: "), Fmt(PyNum(Len(w)))>>),
                         "data",
                         [device_name |-> device_name,
                          average_power |-> avg_energy,
                          max_power |-> max_energy,
                          readings_count |-> Len(w)])
       ELSE
       LET summary == get_energy_summary(D, T, s["user_id"], window[1], window[2])
       IN IF "average_power_watts" \notin DOMAIN summary
          THEN Raised       \* summary['average_power_watts']: KeyError
          ELSE Upd(Upd(s, "answer",
                   <<Lit("Energy summary for all devices ("), Fmt(time_period),
                     Lit("):\n"),
                     Lit("* Average power: "), Fmt1f(summary.average_power_watts),
                     Lit(" watts\n"),
                     Lit("* Peak power: "), Fmt1f(summary.max_power_watts),
                     Lit(" watts\n"),
                     Lit("* Total readings: "), Fmt(PyNum(summary.reading_count))>>),
                 "data", summary)

handle_energy_usage_query(s, parsed_query, D, T, now) ==
    handle_energy_usage_query_at(s, parsed_query, D, D, T, now)

\* the numbered lines of a ranking
RECURSIVE RankingLines(_, _)
RankingLines(rows, i) ==
    IF i > Len(rows) THEN <<>>
    ELSE <<Fmt(PyNum(i)), Lit(". "), Fmt(PyStr(rows[i].name)), Lit(" ("),
           Fmt(PyStr(rows[i].type)), Lit("): "), Fmt1f(rows[i].average_power_watts),
           Lit(" watts\n")>> \o RankingLines(rows, i + 1)

handle_device_comparison_query(s, parsed_query, D, T, now) ==
    LET top_consumers == get_top_consuming_devices(D, T, s["user_id"], PyNum(5),
                                                   None, None)
    IN IF top_consumers = <<>>
       THEN Upd(s, "answer", <<Lit("No energy data available for device comparison.")>>)
       ELSE Upd(Upd(s, "answer",
                    <<Lit("Top energy consuming devices:\n")>>
                        \o RankingLines(top_consumers, 1)),
                "data", [top_consumers |-> top_consumers])

handle_top_consumers_query(s, parsed_query, D, T, now) ==
    IF ~HasGet(parsed_query) THEN Raised
    ELSE
    LET limit == DictGet(parsed_query, "limit", PyNum(5))
        top_consumers == get_top_consuming_devices(D, T, s["user_id"], limit,
                                                   None, None)
    IN IF top_consumers = <<>>
       THEN Upd(s, "answer", <<Lit("No energy data available.")>>)
       ELSE Upd(Upd(s, "answer",
                    <<Lit("Top "), Fmt(PyNum(Len(top_consumers))),
                      Lit(" energy consuming devices:\n")>>
                        \o RankingLines(top_consumers, 1)),
                "data", [top_consumers |-> top_consumers])

handle_energy_summary_query(s, parsed_query, D, T, now) ==
    IF ~HasGet(parsed_query) THEN Raised
    ELSE
    LET time_period == DictGet(parsed_query, "time_period", PyStr("today"))
        window == get_time_range(time_period, now)
        summary == get_energy_summary(D, T, s["user_id"], window[1], window[2])
    IN IF "average_power_watts" \notin DOMAIN summary
       THEN Raised          \* summary['average_power_watts']: KeyError
       ELSE Upd(Upd(s, "answer",
                <<Lit("Energy summary ("), Fmt(time_period), Lit("):\n"),
                  Lit("* Average power: "), Fmt1f(summary.average_power_watts),
                  Lit(" watts\n"),
                  Lit("* Peak power: "), Fmt1f(summary.max_power_watts),
                  Lit(" watts\n"),
                  Lit("* Minimum power: "), Fmt1f(summary.min_power_watts),
                  Lit(" watts\n"),
                  Lit("* Total readings: "), Fmt(PyNum(summary.reading_count))>>),
              "data", summary)

RECURSIVE DeviceLines(_, _)
DeviceLines(devs, i) ==
    IF i > Len(devs) THEN <<>>
    ELSE <<Fmt(PyNum(i)), Lit(". "), Fmt(PyStr(devs[i].name)), Lit(" ("),
           Fmt(PyStr(devs[i].device_type)), Lit(") - "),
           Lit(IF devs[i].is_active THEN "Active" ELSE "Inactive"), Lit("\n")>>
         \o DeviceLines(devs, i + 1)

handle_device_list_query(s, D) ==
    LET devs == get_user_devices(D, s["user_id"])
    IN IF devs = <<>>
       THEN Upd(s, "answer", <<Lit("You don't have any devices registered yet.")>>)
       ELSE Upd(Upd(s, "answer",
                    <<Lit("Your registered devices:\n")>> \o DeviceLines(devs, 1)),
                "data",
                [devices |-> [i \in DOMAIN devs |->
                                [name |-> devs[i].name,
                                 type |-> devs[i].device_type,
                                 active |-> devs[i].is_active]]])

\* the intent handlers; db_ok = FALSE is a storage collaborator that raises
Dispatch(s, parsed_query, D, T, now, db_ok) ==
    LET intent == s["intent"]
    IN IF ~db_ok /\ intent \in ParsedIntents \cup {"DEVICE_LIST"} THEN Raised
       ELSE CASE intent = "ENERGY_USAGE" ->
                    handle_energy_usage_query(s, parsed_query, D, T, now)
              [] intent = "DEVICE_COMPARISON" ->
                    handle_device_comparison_query(s, parsed_query, D, T, now)
              [] intent = "TOP_CONSUMERS" ->
                    handle_top_consumers_query(s, parsed_query, D, T, now)
              [] intent = "ENERGY_SUMMARY" ->
                    handle_energy_summary_query(s, parsed_query, D, T, now)
              [] intent = "DEVICE_LIST" -> handle_device_list_query(s, D)
              [] OTHER -> generate_fallback_response(s)

generate_response_no_except(s, D, T, now, db_ok) ==
    LET parsed_query == IF "parsed_query" \in DOMAIN s THEN s["parsed_query"]
                        ELSE EmptyDict
    IN IF s["intent"] \in SmallTalkIntents
       THEN generate_small_talk_response(s)
       ELSE Dispatch(s, parsed_query, D, T, now, db_ok)

generate_response(s, D, T, now, db_ok) ==
    LET parsed_query == IF "parsed_query" \in DOMAIN s THEN s["parsed_query"]
                        ELSE EmptyDict
    IN IF s["intent"] \in SmallTalkIntents
       THEN generate_small_talk_response(s)
       ELSE LET r == Dispatch(s, parsed_query, D, T, now, db_ok)
            IN IF IsRaised(r) THEN generate_error_response(s) ELSE r

----------------------------------------------------------------------------
(* Bounds and inputs of the model *)

MaxDevices == 2
MaxReadings == 2

Users == {1, 2}
\* the devices users register: <<owner, name>>.  Both users own a "Fridge".
DeviceKinds == {<<1, "Fridge">>, <<1, "TV">>, <<2, "Fridge">>}
Watts == {10, 30}

\* the instants utcnow() returns, and the timestamps devices report
Nows == {20 * DaySeconds + 12 * 3600}
Timestamps == {20 * DaySeconds + 11 * 3600}

ChatIds == {None, PyStr(""), PyStr("session-12345")}
Queries == {"How much energy did my fridge use yesterday?"}

LowerChar(c) ==
    IF \E i \in DOMAIN UpperLetters : UpperLetters[i] = c
    THEN LowerLetters[CHOOSE i \in DOMAIN UpperLetters : UpperLetters[i] = c]
    ELSE c

\* ways the NLM may spell a category
Spellings(name) ==
    { name,
      [i \in DOMAIN name |-> LowerChar(name[i])],
      replace(name, "_", " "),
      replace([i \in DOMAIN name |-> LowerChar(name[i])], "_", " "),
      <<" ", "\n">> \o name \o <<"\n", " ">>,
      <<"\t">> \o replace(name, "_", " ") \o <<"\r", "\n">>,
      replace(name, "_", "\t"),
      replace(name, "_", "-"),
      name \o <<".">>,
      <<"\"">> \o name \o <<"\"">>,
      name \o <<" ">> \o name,
      <<"_">> \o name,
      SubSeq(name, 1, Len(name) - 1) }

ClassifyTexts ==
    UNION {Spellings(NameChars(i)) : i \in Intents}
        \cup { <<>>, <<" ">>, <<"h","e","l","l","o">>, <<"K","e","y","E","r","r","o","r">>,
               <<"_">>, <<" ", "_", " ">> }

ClassifyResponses == {LLMRaises} \cup {LLMReturns(t) : t \in ClassifyTexts}

\* what the NLM may put before, inside and after the JSON document
TextPrefixes ==
    { <<>>, FenceJson, FenceJson \o <<"\n">>, <<" ", "\n">> \o FenceJson \o <<"\n", " ">>,
      Fence, Fence \o <<"\n">>, <<"j","s","o","n">>, <<"H","e","r","e",":"," ">>,
      <<Backtick, Backtick>> }
TextBodies ==
    { <<>>, <<" ">>, <<"\n", "\t">>, <<"x">>, <<"{">>, <<"{}", "{}">>, <<"{}", "x">>,
      <<"{}", " ", "null">> }
        \cup {<<d>> : d \in JsonDocs}
TextSuffixes ==
    { <<>>, Fence, <<"\n">> \o Fence, <<"\n">> \o Fence \o <<"\n", " ">>,
      <<Backtick, Backtick>>, <<".">> }

ExtractTexts == {p \o b \o x : p \in TextPrefixes, b \in TextBodies, x \in TextSuffixes}

ExtractResponses == {LLMRaises} \cup {LLMReturns(t) : t \in ExtractTexts}

\* the classification and extraction outcomes the request pipeline is run with
PipelineClassifyResponses ==
    {LLMRaises, LLMReturns(<<"h","e","l","l","o">>)}
        \cup {LLMReturns(<<" ">> \o replace(NameChars(i), "_", " ") \o <<"\n">>) :
                    i \in Intents}
PipelineExtractResponses ==
    {LLMRaises, LLMReturns(<<"x">>), LLMReturns(<<>>)}
        \cup {LLMReturns(FenceJson \o <<"\n", d, "\n">> \o Fence) :
                    d \in JsonDocs \ {"50", "[]", "\"fridge\"",
        "{\"device_name\": \"lamp\", \"time_period\": \"yesterday\", \"limit\": 1}",
        "{\"device_name\": \"FRIDGE\", \"time_period\": \"yesterday\"}",
        "{\"device_name\": \"fridge\", \"time_period\": \"last_week\"}"}}

\* the orders in which the database may hand out the n rows of a table
\* (every order for a small table; the forward and the backward scan for a large one)
Perms(n) == {f \in [1..n -> 1..n] : \A i, j \in 1..n : f[i] = f[j] => i = j}
Scans(n) ==
    IF n <= 4 THEN Perms(n)
    ELSE {[i \in 1..n |-> i], [i \in 1..n |-> n + 1 - i]}
Scan(rows, p) == [i \in DOMAIN rows |-> rows[p[i]]]

----------------------------------------------------------------------------
(* The chat graph (create_chat_graph) and ChatService.process_query *)

route_after_classification(s) ==
    IF s["intent"] \in SmallTalkIntents THEN "generate_response"
    ELSE "validate_user_access"

route_after_validation_skip(s) == "parse_query"
route_after_validation(s) ==
    IF s["intent"] \in ParsedIntents THEN "enrich_context" ELSE "parse_query"

route_after_enrichment(s) == "parse_query"

route_after_parsing(s) == "generate_response"

NoResult == [k |-> "none"]
GeneratedChatId == "str(uuid.uuid4())"

Init ==
    /\ devices = <<>>
    /\ telemetry = <<>>
    /\ next_device_pk = 1
    /\ next_reading_pk = 1
    /\ pc = "idle"
    /\ state = <<>>
    /\ result = NoResult
    /\ trace = <<>>
    /\ now_used = None
    /\ llm_response = LLMRaises
    /\ fn_out = [fn |-> "none"]
    /\ rank_out = NoResult
    /\ rank_again = NoResult
    /\ ingest_out = NoResult
    /\ served = FALSE
    /\ seen = NoResult
    /\ pending = <<>>

storeVars == <<devices, telemetry, next_device_pk, next_reading_pk>>
textVars == <<llm_response, fn_out>>
concVars == <<seen, pending>>
restVars == <<rank_out, rank_again, ingest_out, served, concVars>>

\* primary keys are handed out once; no more than these are
MaxDevicePk == MaxDevices

\* DeviceService.create_device
CreateDevice(user_id, name) ==
    /\ pc = "idle"
    /\ Len(devices) < MaxDevices
    /\ next_device_pk <= MaxDevicePk
    /\ devices' = Append(devices,
            [id |-> next_device_pk, device_id |-> DeviceUuid(next_device_pk),
             name |-> name, device_type |-> "fridge", user_id |-> user_id,
             is_active |-> TRUE])
    /\ next_device_pk' = next_device_pk + 1
    /\ UNCHANGED <<telemetry, next_reading_pk, pc, state, result, trace, now_used,
                   textVars, restVars>>

\* TelemetryService.ingest_telemetry for a device that exists
IngestTelemetry(device_id, timestamp, energy_watts) ==
    /\ pc = "idle"
    /\ Len(telemetry) < MaxReadings
    /\ \E i \in DOMAIN devices :
        /\ devices[i].device_id = device_id
        /\ telemetry' = Append(telemetry,
                [id |-> next_reading_pk, device_id |-> devices[i].id,
                 timestamp |-> timestamp, energy_watts |-> energy_watts])
    /\ next_reading_pk' = next_reading_pk + 1
    /\ UNCHANGED <<devices, next_device_pk, pc, state, result, trace, now_used,
                   textVars, restVars>>

\* process_query, up to the point where the graph is entered
ProcessQuery(query, user_id, chat_id) ==
    /\ pc = "idle"
    /\ state' = [chat_id |-> IF ~Truthy(chat_id) THEN GeneratedChatId ELSE chat_id.v,
                 query |-> query,
                 user_id |-> user_id]
    /\ pc' = "classify_intent"
    /\ UNCHANGED <<storeVars, result, trace, now_used, textVars, restVars>>

ClassifyIntentNodeWith(responses) ==
    /\ pc = "classify_intent"
    /\ \E response \in responses :
        /\ state' = Upd(state, "intent", classify_intent(response))
        /\ pc' = route_after_classification(state')
    /\ trace' = trace \o <<"classify_intent", "llm.classify">>
    /\ UNCHANGED <<storeVars, result, now_used, textVars, restVars>>

ClassifyIntentNode == ClassifyIntentNodeWith(PipelineClassifyResponses)

ValidateUserAccessNode ==
    /\ pc = "validate_user_access"
    /\ pc' = route_after_validation(state)
    /\ trace' = Append(trace, "validate_user_access")
    /\ UNCHANGED <<storeVars, state, result, now_used, textVars, restVars>>

EnrichContextNode ==
    /\ pc = "enrich_context"
    /\ pc' = route_after_enrichment(state)
    /\ trace' = Append(trace, "enrich_context")
    /\ UNCHANGED <<storeVars, state, result, now_used, textVars, restVars>>

\* parse_query_node: the intents whose query is handed to the extraction NLM
NeedsParsingAll(intent) == intent \notin SmallTalkIntents
NeedsParsing(intent) == intent \in ParsedIntents

ParseQueryNodeWith(responses) ==
    /\ pc = "parse_query"
    /\ IF NeedsParsing(state["intent"])
       THEN \E response \in responses :
                /\ state' = Upd(state, "parsed_query", parse_energy_query(response))
                /\ trace' = trace \o <<"parse_query", "llm.extract">>
       ELSE /\ state' = state
            /\ trace' = Append(trace, "parse_query")
    /\ pc' = route_after_parsing(state')
    /\ UNCHANGED <<storeVars, result, now_used, textVars, restVars>>

ParseQueryNode == ParseQueryNodeWith(PipelineExtractResponses)

GenerateResponseNode ==
    /\ pc = "generate_response"
    /\ pc' = "END"
    /\ trace' = trace \o <<"generate_response", "END">>
    /\ UNCHANGED <<storeVars, state, result, now_used, textVars, restVars>>

\* process_query after graph.invoke: generate_response against the database, and
\* the dict returned (final_result["answer"] raises when there is no answer)
ReturnedDict(graph_result, final_result) ==
    IF IsRaised(final_result) \/ "answer" \notin DOMAIN final_result
    THEN Raised
    ELSE [chat_id |-> graph_result["chat_id"],
          answer |-> final_result["answer"],
          data |-> StateGet(final_result, "data")]

process_query_return(graph_result, D, T, now, db_ok) ==
    ReturnedDict(graph_result, generate_response(graph_result, D, T, now, db_ok))

\* a handler that would also store what it answered
RespondStoring ==
    /\ pc = "END"
    /\ \E now \in Nows, db_ok \in BOOLEAN, p \in Scans(Len(devices)) :
           /\ result' = process_query_return(state, Scan(devices, p), telemetry,
                                             now, db_ok)
           /\ now_used' = PyTime(now)
           /\ trace' = trace \o
                (IF state["intent"] \in SmallTalkIntents THEN <<>>
                 ELSE <<IF db_ok THEN "db.read" ELSE "db.raises">>)
           /\ telemetry' = IF devices = <<>> THEN telemetry
                           ELSE Append(telemetry,
                                    [id |-> next_reading_pk, device_id |-> devices[1].id,
                                     timestamp |-> now, energy_watts |-> 0])
    /\ pc' = "returned"
    /\ UNCHANGED <<devices, next_device_pk, next_reading_pk, state, textVars, restVars>>

Respond ==
    /\ pc = "END"
    /\ \E now \in Nows, db_ok \in BOOLEAN, p \in Scans(Len(devices)) :
           /\ result' = process_query_return(state, Scan(devices, p), telemetry,
                                             now, db_ok)
           /\ now_used' = PyTime(now)
           /\ trace' = trace \o
                (IF state["intent"] \in SmallTalkIntents THEN <<>>
                 ELSE <<IF db_ok THEN "db.read" ELSE "db.raises">>)
    /\ pc' = "returned"
    /\ UNCHANGED <<storeVars, state, textVars, restVars>>

\* a graph that would keep the finished request's state for the next turn
ReturnKeepingState(mark) ==
    /\ pc = "returned"
    /\ pc' = "idle"
    /\ result' = NoResult
    /\ now_used' = None
    /\ rank_out' = NoResult
    /\ rank_again' = NoResult
    /\ served' = (served \/ mark)
    /\ seen' = NoResult
    /\ UNCHANGED <<storeVars, state, trace, textVars, ingest_out, pending>>

\* the request is over; its state is dropped.  With mark, the history records
\* that a request has been answered.
ReturnWith(mark) ==
    /\ pc = "returned"
    /\ pc' = "idle"
    /\ state' = <<>>
    /\ result' = NoResult
    /\ trace' = <<>>
    /\ now_used' = None
    /\ rank_out' = NoResult
    /\ rank_again' = NoResult
    /\ served' = (served \/ mark)
    /\ seen' = NoResult
    /\ UNCHANGED <<storeVars, textVars, ingest_out, pending>>

Return == ReturnWith(FALSE)

\* Rows that do not depend on each other are inserted in one order only, by
\* (owner, name) and by (device, timestamp, watts): which of two such rows got the
\* smaller primary key is seen by no query, and the order in which the database
\* hands rows out is chosen anew for every query (Scan).
NameRank(name) == IF name = "Fridge" THEN 1 ELSE 2

LexLeq(a, b) ==
    \/ a[1] < b[1]
    \/ a[1] = b[1] /\ a[2] < b[2]
    \/ a[1] = b[1] /\ a[2] = b[2] /\ a[3] <= b[3]

DeviceInOrder(user_id, name) ==
    devices # <<>> =>
        LET last == devices[Len(devices)]
        IN LexLeq(<<last.user_id, NameRank(last.name), 0>>,
                  <<user_id, NameRank(name), 0>>)

ReadingInOrder(pk, timestamp, energy_watts) ==
    telemetry # <<>> =>
        LET last == telemetry[Len(telemetry)]
        IN LexLeq(<<last.device_id, last.timestamp, last.energy_watts>>,
                  <<pk, timestamp, energy_watts>>)

Next ==
    \/ \E k \in DeviceKinds :
            DeviceInOrder(k[1], k[2]) /\ CreateDevice(k[1], k[2])
    \/ \E i \in 1..MaxDevices, ts \in Timestamps, w \in Watts :
            ReadingInOrder(i, ts, w) /\ IngestTelemetry(DeviceUuid(i), ts, w)
    \/ \E q \in Queries, u \in Users, c \in ChatIds : ProcessQuery(q, u, c)
    \/ ClassifyIntentNode
    \/ ValidateUserAccessNode
    \/ EnrichContextNode
    \/ ParseQueryNode
    \/ GenerateResponseNode
    \/ Respond
    \/ Return

Spec == Init /\ [][Next]_vars

----------------------------------------------------------------------------
(* The two NLM-facing functions on their own: every spelling and every     *)
(* wrapping of the NLM's text                                              *)

InitText ==
    /\ devices = <<>>
    /\ telemetry = <<>>
    /\ next_device_pk = 1
    /\ next_reading_pk = 1
    /\ pc = "text"
    /\ state = <<>>
    /\ result = NoResult
    /\ trace = <<>>
    /\ now_used = None
    /\ llm_response \in ClassifyResponses \cup ExtractResponses
    /\ fn_out = [fn |-> "none"]
    /\ rank_out = NoResult
    /\ rank_again = NoResult
    /\ ingest_out = NoResult
    /\ served = FALSE
    /\ seen = NoResult
    /\ pending = <<>>

ApplyClassifyIntent ==
    /\ pc = "text"
    /\ fn_out.fn = "none"
    /\ fn_out' = [fn |-> "classify_intent", value |-> classify_intent(llm_response)]
    /\ UNCHANGED <<storeVars, pc, state, result, trace, now_used, llm_response, restVars>>

ApplyParseEnergyQuery ==
    /\ pc = "text"
    /\ fn_out.fn = "none"
    /\ fn_out' = [fn |-> "parse_energy_query",
                  value |-> parse_energy_query(llm_response)]
    /\ UNCHANGED <<storeVars, pc, state, result, trace, now_used, llm_response, restVars>>

NextText == ApplyClassifyIntent \/ ApplyParseEnergyQuery

SpecText == InitText /\ [][NextText]_vars

----------------------------------------------------------------------------
(* The ranking on larger tables: GET /api/telemetry/top-consuming and the   *)
(* chat pipeline over a database that already holds up to MaxRankDevices    *)
(* devices with their readings                                              *)

MaxRankDevices == 12

\* the most devices a ranking is documented to return
MaxRanked == 10

\* Device i of n: the first `others` devices belong to user 2, the rest to user 1.
RankDevice(i, others) ==
    [id |-> i, device_id |-> DeviceUuid(i),
     name |-> IF i % 2 = 1 THEN "Fridge" ELSE "TV",
     device_type |-> "fridge",
     user_id |-> IF i <= others THEN 2 ELSE 1,
     is_active |-> TRUE]

\* Each device has one reading, 10, 20 or 30 W in turn (modulus m); with
\* `extra`, every third device has a second reading of 30 W.
RankReadings(n, m, extra) ==
    LET first == [i \in 1..n |->
                    [id |-> i, device_id |-> i,
                     timestamp |-> 20 * DaySeconds + 11 * 3600,
                     energy_watts |-> 10 * (1 + (i % m))]]
        thirds == SelectSeq([i \in 1..n |-> i], LAMBDA i : i % 3 = 0)
        second == [j \in DOMAIN thirds |->
                    [id |-> n + j, device_id |-> thirds[j],
                     timestamp |-> 19 * DaySeconds + 12 * 3600,
                     energy_watts |-> 30]]
    IN IF extra THEN first \o second ELSE first

InitRank ==
    \E n \in 0..MaxRankDevices, m \in 1..3, others \in 0..1, extra \in BOOLEAN :
        /\ devices = [i \in 1..n |-> RankDevice(i, others)]
        /\ telemetry = RankReadings(n, m, extra)
        /\ next_device_pk = n + 1
        /\ next_reading_pk = Len(telemetry) + 1
        /\ pc = "idle"
        /\ state = <<>>
        /\ result = NoResult
        /\ trace = <<>>
        /\ now_used = None
        /\ llm_response = LLMRaises
        /\ fn_out = [fn |-> "none"]
        /\ rank_out = NoResult
        /\ rank_again = NoResult
        /\ ingest_out = NoResult
        /\ served = FALSE
        /\ seen = NoResult
        /\ pending = <<>>

RouteLimits == {1, 3, 10, 50}
RouteWindows ==
    { <<None, None>>,
      <<PyTime(20 * DaySeconds), None>>,
      <<PyTime(19 * DaySeconds), PyTime(20 * DaySeconds - 1)>> }

\* routes/telemetry.py get_top_consuming_devices: limit is any integer of the
\* query string, start_time and end_time are optional
GetTopConsumingDevices(user_id, limit, window) ==
    /\ pc = "idle"
    /\ \E p \in Scans(Len(devices)) :
        rank_out' = [k |-> "rows",
                     v |-> get_top_consuming_devices(Scan(devices, p), telemetry,
                                user_id, PyNum(limit), window[1], window[2]),
                     call |-> <<user_id, limit, window>>]
    /\ pc' = "returned"
    /\ UNCHANGED <<storeVars, state, result, trace, now_used, textVars, rank_again,
                   ingest_out, served, concVars>>

\* the same request sent once more while the tables are as they were
RepeatTopConsumingDevices ==
    /\ pc = "returned"
    /\ rank_out # NoResult
    /\ rank_again = NoResult
    /\ \E p \in Scans(Len(devices)) :
        rank_again' = [k |-> "rows",
                       v |-> get_top_consuming_devices(Scan(devices, p), telemetry,
                                rank_out.call[1], PyNum(rank_out.call[2]),
                                rank_out.call[3][1], rank_out.call[3][2])]
    /\ UNCHANGED <<storeVars, pc, state, result, trace, now_used, textVars, rank_out,
                   ingest_out, served, concVars>>

NextRank ==
    \/ \E u \in Users, l \in RouteLimits, w \in RouteWindows :
            GetTopConsumingDevices(u, l, w)
    \/ RepeatTopConsumingDevices
    \/ \E q \in Queries, u \in Users, c \in ChatIds : ProcessQuery(q, u, c)
    \/ ClassifyIntentNode
    \/ ValidateUserAccessNode
    \/ EnrichContextNode
    \/ ParseQueryNode
    \/ GenerateResponseNode
    \/ Respond
    \/ Return

SpecRank == InitRank /\ [][NextRank]_vars

----------------------------------------------------------------------------
(* Properties *)

GraphNodes ==
    {"classify_intent", "validate_user_access", "enrich_context", "parse_query",
     "generate_response"}

\* one step of the graph
GraphStep ==
    \/ ClassifyIntentNode
    \/ ValidateUserAccessNode
    \/ EnrichContextNode
    \/ ParseQueryNode
    \/ GenerateResponseNode

Calls == SelectSeq(trace, LAMBDA e : e \in {"llm.classify", "llm.extract",
                                            "db.read", "db.raises"})
NodeTrace == SelectSeq(trace, LAMBDA e : e \in GraphNodes \cup {"END"})
CountOf(s, e) == Cardinality({i \in DOMAIN s : s[i] = e})
IsPrefix(a, b) == Len(a) <= Len(b) /\ SubSeq(b, 1, Len(a)) = a
StorageFailed == trace # <<>> /\ trace[Len(trace)] = "db.raises"
AnswerNonEmpty(answer) == \E i \in DOMAIN answer : PieceNonEmpty(answer[i])

\* C1: whatever the query, the chat_id given or not, the NLM's behaviour and the
\* stored data, process_query returns (it does not raise) a chat_id that is a
\* non-empty string and an answer that is a non-empty string.
C1_NonEmptyResponse ==
    pc = "returned" =>
        /\ ~IsRaised(result)
        /\ result.chat_id # ""
        /\ AnswerNonEmpty(result.answer)

\* a request without chat_id whose extraction came back as JSON that is no object,
\* answered while the user owns a device with a reading
C1_Witness ==
    /\ pc = "returned"
    /\ state["intent"] = "ENERGY_USAGE"
    /\ state["parsed_query"] = None
    /\ state["chat_id"] = GeneratedChatId
    /\ \E i \in DOMAIN devices : devices[i].user_id = state["user_id"]
    /\ telemetry # <<>>
    /\ ~IsRaised(result)

\* C2: when storage raises while one of the five intent handlers runs,
\* process_query still returns: the request's chat_id, the generic 'encountered
\* an error' answer, and no data.
C2_StorageFailureAnswer ==
    (pc = "returned" /\ StorageFailed) =>
        result = [chat_id |-> state["chat_id"],
                  answer |-> <<Lit(ErrorText)>>,
                  data |-> None]

C2_Witness ==
    /\ pc = "returned"
    /\ StorageFailed
    /\ state["intent"] = "DEVICE_LIST"
    /\ devices # <<>>
    /\ ~IsRaised(result)

\* C5: the classification call is made exactly once and first; the extraction
\* call is made once for ENERGY_USAGE, DEVICE_COMPARISON, TOP_CONSUMERS and
\* ENERGY_SUMMARY and never for the other intents; when made it comes after
\* the classification and before any storage read.
C5_CallOrder ==
    /\ pc \in {"idle", "classify_intent"} => Calls = <<>>
    /\ pc \in (GraphNodes \ {"classify_intent"}) \cup {"END", "returned"} =>
        /\ CountOf(Calls, "llm.classify") = 1
        /\ Calls[1] = "llm.classify"
        /\ CountOf(Calls, "llm.extract") <= 1
        /\ CountOf(Calls, "llm.extract") = 1 => Calls[2] = "llm.extract"
        /\ state["intent"] \notin ParsedIntents => CountOf(Calls, "llm.extract") = 0
        /\ \A i \in DOMAIN Calls :
                Calls[i] \in {"db.read", "db.raises"} =>
                    /\ i = Len(Calls)
                    /\ pc = "returned"
    /\ pc \in {"generate_response", "END", "returned"} =>
        CountOf(Calls, "llm.extract") =
            (IF state["intent"] \in ParsedIntents THEN 1 ELSE 0)

C5_Witness ==
    /\ pc = "returned"
    /\ state["intent"] = "TOP_CONSUMERS"
    /\ Calls = <<"llm.classify", "llm.extract", "db.read">>

\* the node sequence the graph runs for an intent
ExpectedPath(intent) ==
    IF intent \in SmallTalkIntents
    THEN <<"classify_intent", "generate_response", "END">>
    ELSE IF intent \in ParsedIntents
    THEN <<"classify_intent", "validate_user_access", "enrich_context",
           "parse_query", "generate_response", "END">>
    ELSE <<"classify_intent", "validate_user_access", "parse_query",
           "generate_response", "END">>

\* C6: the router runs exactly one of three node sequences, chosen by the
\* intent alone: classify -> generate -> End for the conversational intents,
\* classify -> validate -> enrich -> parse -> generate -> End for the four
\* analytical intents, classify -> validate -> parse -> generate -> End for
\* DEVICE_LIST; no node runs twice, and the graph can always take its next
\* step until it has reached End.
C6_RouterPaths ==
    /\ pc \in {"END", "returned"} => NodeTrace = ExpectedPath(state["intent"])
    /\ pc \in GraphNodes \ {"classify_intent"} =>
        IsPrefix(Append(NodeTrace, pc), ExpectedPath(state["intent"]))
    /\ pc = "classify_intent" => NodeTrace = <<>>
    /\ pc \in GraphNodes => ENABLED GraphStep

C6_Witness ==
    /\ pc = "returned"
    /\ state["intent"] = "DEVICE_LIST"
    /\ NodeTrace = <<"classify_intent", "validate_user_access", "parse_query",
                     "generate_response", "END">>

SmallTalkTemplate(intent) ==
    CASE intent = "GREETING" -> GreetingText
      [] intent = "THANKS" -> ThanksText
      [] intent = "GOODBYE" -> GoodbyeText
      [] intent = "OFF_TOPIC" -> OffTopicText

\* C7: for GREETING, THANKS, GOODBYE and OFF_TOPIC the answer is the fixed text
\* of the intent and there is no data, whatever the query, the user and the
\* stored data; storage is not read.
C7_SmallTalk ==
    (pc = "returned" /\ state["intent"] \in SmallTalkIntents) =>
        /\ result = [chat_id |-> state["chat_id"],
                     answer |-> <<Lit(SmallTalkTemplate(state["intent"]))>>,
                     data |-> None]
        /\ \A i \in DOMAIN trace : trace[i] \notin {"db.read", "db.raises"}

C7_Witness ==
    /\ pc = "returned"
    /\ state["intent"] = "THANKS"
    /\ state["user_id"] = 2
    /\ \E i \in DOMAIN devices : devices[i].user_id = 2
    /\ telemetry # <<>>
    /\ result.answer = <<Lit(ThanksText)>>

\* what the requesting user owns
OwnDevices == SelectSeq(devices, LAMBDA d : d.user_id = state["user_id"])
OwnTelemetry ==
    SelectSeq(telemetry, LAMBDA t :
        \E i \in DOMAIN devices : /\ devices[i].id = t.device_id
                                  /\ devices[i].user_id = state["user_id"])

\* the responses the request can get from tables D and T (the database chooses
\* the row order)
ResponsesOn(D, T) ==
    {process_query_return(state, Scan(D, p), T, now_used.v, ~StorageFailed) :
        p \in Scans(Len(D))}

OwnUuids == {OwnDevices[i].device_id : i \in DOMAIN OwnDevices}

\* C8: the response to a chat query of user A is made of A's devices and
\* readings only: it is a response A would get if the tables held nothing but
\* A's rows, the devices it ranks or lists are A's, and whatever other users
\* own - devices of the same name included - leaves the possible responses
\* unchanged.
C8_OwnerIsolation ==
    pc = "returned" =>
        /\ LET own == ResponsesOn(OwnDevices, OwnTelemetry)
           IN /\ result \in own
              /\ ResponsesOn(devices, telemetry) = own
        /\ ~IsRaised(result) =>
            /\ "top_consumers" \in DOMAIN result.data =>
                \A i \in DOMAIN result.data.top_consumers :
                    result.data.top_consumers[i].device_id \in OwnUuids
            /\ "devices" \in DOMAIN result.data =>
                Len(result.data.devices) = Len(OwnDevices)

\* user A asked for the "fridge"; A and B each own a "Fridge" with a reading
C8_Witness ==
    /\ pc = "returned"
    /\ state["intent"] = "ENERGY_USAGE"
    /\ ~StorageFailed
    /\ "data" \in DOMAIN result
    /\ "readings_count" \in DOMAIN result.data
    /\ \E i, j \in DOMAIN devices :
        /\ devices[i].user_id = state["user_id"]
        /\ devices[j].user_id # state["user_id"]
        /\ devices[i].name = devices[j].name
        /\ \E a, b \in DOMAIN telemetry :
            /\ telemetry[a].device_id = devices[i].id
            /\ telemetry[b].device_id = devices[j].id
            /\ telemetry[a].energy_watts # telemetry[b].energy_watts

----------------------------------------------------------------------------
(* Properties of the NLM-facing functions *)

\* the normalised character c is the character n of a member name
CharSpells(c, n) == UpperChar(c) = n \/ (c = " " /\ n = "_")

\* the text, apart from white space around it, spells the name of the intent:
\* letters in either case, a space wherever the name has an underscore
SpellsIntent(text, intent) ==
    LET name == NameChars(intent)
    IN \E a \in 1..(Len(text) + 1) :
        /\ a + Len(name) - 1 <= Len(text)
        /\ \A j \in 1..(a - 1) : IsSpace(text[j])
        /\ \A j \in (a + Len(name))..Len(text) : IsSpace(text[j])
        /\ \A j \in 1..Len(name) : CharSpells(text[a + j - 1], name[j])

\* C3: classify_intent never raises and returns one of the nine intents: intent
\* X exactly when the NLM's text, trimmed, uppercased and with spaces turned
\* into underscores, is the name of X; OFF_TOPIC for every other text and for
\* every exception of the NLM call.
C3_ClassifyTotal ==
    fn_out.fn = "classify_intent" =>
        /\ fn_out.value \in Intents
        /\ \A x \in Intents :
            (~llm_response.raises /\ SpellsIntent(llm_response.content, x))
                => fn_out.value = x
        /\ (llm_response.raises
                \/ \A x \in Intents : ~SpellsIntent(llm_response.content, x))
                => fn_out.value = "OFF_TOPIC"

\* "\tenergy usage\r\n" is classified ENERGY_USAGE
C3_Witness ==
    /\ fn_out.fn = "classify_intent"
    /\ fn_out.value = "TOP_CONSUMERS"
    /\ llm_response.content # NameChars("TOP_CONSUMERS")
    /\ \E i \in DOMAIN llm_response.content : llm_response.content[i] = " "
    /\ IsSpace(llm_response.content[1])

AllSpace(s) == \A i \in DOMAIN s : IsSpace(s[i])

\* white space, possibly with one opening fence in it
OpeningFence(p) ==
    \/ AllSpace(p)
    \/ \E j \in 0..(Len(p) - 7) :
        /\ AllSpace(SubSeq(p, 1, j))
        /\ SubSeq(p, j + 1, j + 7) = FenceJson
        /\ AllSpace(SubSeq(p, j + 8, Len(p)))

\* white space, possibly with one closing fence in it
ClosingFence(x) ==
    \/ AllSpace(x)
    \/ \E j \in 0..(Len(x) - 3) :
        /\ AllSpace(SubSeq(x, 1, j))
        /\ SubSeq(x, j + 1, j + 3) = Fence
        /\ AllSpace(SubSeq(x, j + 4, Len(x)))

\* the text is one JSON document, possibly fenced
Decodable(text) ==
    \E i \in DOMAIN text :
        /\ text[i] \in JsonDocs
        /\ OpeningFence(SubSeq(text, 1, i - 1))
        /\ ClosingFence(SubSeq(text, i + 1, Len(text)))

\* C4: parse_energy_query never raises; when the NLM call raises, or returns an
\* empty or white-space-only text, or a text that is not decodable JSON once a
\* leading and a trailing fence are cut off, the parameter record is empty.
C4_ParseTotal ==
    fn_out.fn = "parse_energy_query" =>
        /\ fn_out.value # Raised
        /\ fn_out.value # JSONDecodeError
        /\ (llm_response.raises \/ ~Decodable(llm_response.content))
                => fn_out.value = EmptyDict

\* a document followed by more text inside the fences
C4_Witness ==
    /\ fn_out.fn = "parse_energy_query"
    /\ ~llm_response.raises
    /\ startswith(llm_response.content, FenceJson)
    /\ \E i \in DOMAIN llm_response.content : llm_response.content[i] \in JsonDocs
    /\ ~Decodable(llm_response.content)
    /\ fn_out.value = EmptyDict

----------------------------------------------------------------------------
(* Properties of the ranking *)

\* the ranked lists a finished call or chat request holds
RankedLists ==
    (IF rank_out # NoResult THEN {rank_out.v} ELSE {})
        \cup (IF result # NoResult /\ ~IsRaised(result)
                    /\ "top_consumers" \in DOMAIN result.data
              THEN {result.data.top_consumers} ELSE {})

\* primary key of the device a ranked row is about
PkOf(row) ==
    LET i == CHOOSE i \in DOMAIN devices : devices[i].device_id = row.device_id
    IN devices[i].id

Descending(rows) ==
    \A i \in 1..(Len(rows) - 1) :
        ~RatLess(rows[i].average_power_watts, rows[i + 1].average_power_watts)

TiesInCreationOrder(rows) ==
    \A i, j \in DOMAIN rows :
        (i < j /\ rows[i].average_power_watts = rows[j].average_power_watts)
            => PkOf(rows[i]) < PkOf(rows[j])

\* C9: a ranked list, from TOP_CONSUMERS, from DEVICE_COMPARISON or from the
\* ranking operation itself, never has more than 10 entries, whatever limit was
\* asked for and however many devices with readings the user owns.
C9_RankingCappedAtTen ==
    \A rows \in RankedLists : Len(rows) <= MaxRanked

----------------------------------------------------------------------------
(* get_time_range on its own: every period at instants around midnight *)

\* the instants utcnow() returns: days 31, 40 and 59 of the epoch, at the first,
\* second, middle and last second of the day
TimeNows ==
    {d * DaySeconds + t : d \in {31, 40, 59}, t \in {0, 1, 12 * 3600, DaySeconds - 1}}

\* the time_period handed in: the four names, other text, other values, nothing
TimePeriods ==
    { PyStr("today"), PyStr("yesterday"), PyStr("last_week"), PyStr("last_month"),
      PyStr("Today"), PyStr("last_year"), PyStr(""), PyNum(7), PyList(<<>>), None }

NamedPeriods ==
    {PyStr("today"), PyStr("yesterday"), PyStr("last_week"), PyStr("last_month")}

InitTime ==
    /\ devices = <<>>
    /\ telemetry = <<>>
    /\ next_device_pk = 1
    /\ next_reading_pk = 1
    /\ pc = "time"
    /\ state \in {[time_period |-> tp] : tp \in TimePeriods}
    /\ result = NoResult
    /\ trace = <<>>
    /\ now_used \in {PyTime(n) : n \in TimeNows}
    /\ llm_response = LLMRaises
    /\ fn_out = [fn |-> "none"]
    /\ rank_out = NoResult
    /\ rank_again = NoResult
    /\ ingest_out = NoResult
    /\ served = FALSE
    /\ seen = NoResult
    /\ pending = <<>>

ApplyGetTimeRange ==
    /\ pc = "time"
    /\ fn_out.fn = "none"
    /\ fn_out' = [fn |-> "get_time_range",
                  value |-> get_time_range(state.time_period, now_used.v)]
    /\ UNCHANGED <<storeVars, pc, state, result, trace, now_used, llm_response, restVars>>

NextTime == ApplyGetTimeRange

SpecTime == InitTime /\ [][NextTime]_vars

----------------------------------------------------------------------------
(* Properties of get_time_range *)

\* C12: whatever 'now' is, get_time_range("yesterday") starts at midnight (UTC)
\* of the day before 'now', ends 24 hours minus 1 second later, and ends
\* before the start of get_time_range("today") for the same 'now'.
C12_YesterdayWindow ==
    (fn_out.fn = "get_time_range" /\ state.time_period = PyStr("yesterday")) =>
        LET now == now_used.v
            start == fn_out.value[1]
            end == fn_out.value[2]
            today == get_time_range(PyStr("today"), now)
        IN /\ start.k = "datetime" /\ end.k = "datetime"
           /\ start.v % DaySeconds = 0
           /\ now - start.v >= DaySeconds
           /\ now - start.v < 2 * DaySeconds
           /\ end.v - start.v = 24 * 3600 - 1
           /\ end.v < today[1].v

\* yesterday's window computed at the first second of a day
C12_Witness ==
    /\ fn_out.fn = "get_time_range"
    /\ state.time_period = PyStr("yesterday")
    /\ now_used.v % DaySeconds = 0
    /\ fn_out.value[2].v = now_used.v - 1

\* C13: for every time_period, named or not, and every 'now', get_time_range
\* returns (it does not raise) either a pair of instants with start <= end or
\* (None, None), and (None, None) exactly when the period is none of today,
\* yesterday, last_week, last_month.
C13_WindowWellFormed ==
    fn_out.fn = "get_time_range" =>
        LET start == fn_out.value[1]
            end == fn_out.value[2]
        IN /\ Len(fn_out.value) = 2
           /\ \/ start = None /\ end = None
              \/ /\ start.k = "datetime" /\ end.k = "datetime"
                 /\ start.v <= end.v
           /\ (start = None /\ end = None) <=> state.time_period \notin NamedPeriods

\* the window of "today" at the first second of a day: start = end
C13_Witness ==
    /\ fn_out.fn = "get_time_range"
    /\ state.time_period = PyStr("today")
    /\ fn_out.value[1] = fn_out.value[2]

----------------------------------------------------------------------------
(* Properties of a repeated ranking call *)

\* every device of the caller that the ranking call groups, with its average
AllRanked ==
    get_top_consuming_devices(devices, telemetry, rank_out.call[1], None,
                              rank_out.call[3][1], rank_out.call[3][2])

\* the average of this row is the average of two or more of the devices in all
TiedAverage(all, row) ==
    \E i, j \in DOMAIN all :
        /\ i < j
        /\ all[i].average_power_watts = row.average_power_watts
        /\ all[j].average_power_watts = row.average_power_watts

----------------------------------------------------------------------------
(* The chat pipeline over a device with many readings: a "Fridge" that has  *)
(* reported every ten minutes, up to more readings than one query fetches   *)

\* handle_energy_usage_query fetches at most this many readings
UsageCap == 100

MaxUsageReadings == 102

UsageCounts == 0..3 \cup (UsageCap - 1)..MaxUsageReadings

\* the instant of Nows
UsageNow == 20 * DaySeconds + 12 * 3600

\* the devices table: <<owner, name>> in row order
UsageLayouts ==
    { <<(<<1, "Fridge">>), (<<1, "TV">>), (<<2, "Fridge">>)>>,
      <<(<<1, "TV">>), (<<2, "Fridge">>)>>,
      <<(<<1, "Fridge">>)>>,
      <<(<<1, "Fridge">>), (<<1, "Fridge">>)>> }

UsageDevices(layout) ==
    [i \in DOMAIN layout |->
        [id |-> i, device_id |-> DeviceUuid(i), name |-> layout[i][2],
         device_type |-> "fridge", user_id |-> layout[i][1], is_active |-> TRUE]]

\* The first "Fridge" has n readings, ten minutes apart, the newest ten minutes
\* before UsageNow; they are stored oldest first, and those older than the newest
\* UsageCap report 500 W.  Every other device has one reading of 30 W.
UsageReadings(layout, n) ==
    LET fridge == CHOOSE i \in DOMAIN layout :
                    /\ layout[i][2] = "Fridge"
                    /\ \A j \in 1..(i - 1) : layout[j][2] # "Fridge"
        many == [k \in 1..n |->
                    LET j == n + 1 - k
                    IN [id |-> k, device_id |-> fridge,
                        timestamp |-> UsageNow - j * 600,
                        energy_watts |-> IF j > UsageCap THEN 500
                                         ELSE 10 * (1 + (j % 3))]]
        others == SelectSeq([i \in DOMAIN layout |-> i], LAMBDA i : i # fridge)
        single == [m \in DOMAIN others |->
                    [id |-> n + m, device_id |-> others[m],
                     timestamp |-> UsageNow - 3600, energy_watts |-> 30]]
    IN many \o single

InitUsage ==
    \E layout \in UsageLayouts, n \in UsageCounts :
        /\ devices = UsageDevices(layout)
        /\ telemetry = UsageReadings(layout, n)
        /\ next_device_pk = Len(devices) + 1
        /\ next_reading_pk = Len(telemetry) + 1
        /\ pc = "idle"
        /\ state = <<>>
        /\ result = NoResult
        /\ trace = <<>>
        /\ now_used = None
        /\ llm_response = LLMRaises
        /\ fn_out = [fn |-> "none"]
        /\ rank_out = NoResult
        /\ rank_again = NoResult
        /\ ingest_out = NoResult
        /\ served = FALSE
        /\ seen = NoResult
        /\ pending = <<>>

\* the extraction outcomes of this pipeline
UsageExtractResponses ==
    {LLMRaises, LLMReturns(<<"x">>)}
        \cup {LLMReturns(FenceJson \o <<"\n", d, "\n">> \o Fence) :
                    d \in JsonDocs \ {"50", "[]", "\"fridge\""}}

UsageParseQueryNode == ParseQueryNodeWith(UsageExtractResponses)

NextUsage ==
    \/ \E q \in Queries, u \in Users, c \in ChatIds : ProcessQuery(q, u, c)
    \/ ClassifyIntentNode
    \/ ValidateUserAccessNode
    \/ EnrichContextNode
    \/ UsageParseQueryNode
    \/ GenerateResponseNode
    \/ Respond
    \/ Return

SpecUsage == InitUsage /\ [][NextUsage]_vars

----------------------------------------------------------------------------
(* Properties of the ENERGY_USAGE handler *)

\* the sum of f over the set S of row numbers of the telemetry table
SetSum(S, f) ==
    RangeSum([i \in DOMAIN telemetry |-> IF i \in S THEN f[i] ELSE 0],
             1, Len(telemetry))

\* the request is an ENERGY_USAGE query with a device name, answered with the
\* storage working
UsageAnswered ==
    /\ pc = "returned"
    /\ state["intent"] = "ENERGY_USAGE"
    /\ ~StorageFailed
    /\ state["parsed_query"].k = "dict"
    /\ "device_name" \in DOMAIN state["parsed_query"].v
    /\ state["parsed_query"].v.device_name.k = "str"
    /\ state["parsed_query"].v.device_name.v # ""

RequestedName == state["parsed_query"].v.device_name

\* a device name with the case of its letters folded
Folded(name) ==
    CASE name \in {"Fridge", "FRIDGE", "fridge"} -> "fridge"
      [] name \in {"TV", "tv"} -> "tv"
      [] name \in {"lamp"} -> "lamp"

\* rows of the requesting user's devices whose name is the requested one, case
\* aside
Matching ==
    {i \in DOMAIN devices :
        /\ devices[i].user_id = state["user_id"]
        /\ Folded(devices[i].name) = Folded(RequestedName.v)}

UsagePeriod == DictGet(state["parsed_query"], "time_period", PyStr("today"))
UsageWindow == get_time_range(UsagePeriod, now_used.v)

\* rows of the readings of device d inside the window of the request
ReadingsOf(d) ==
    {i \in DOMAIN telemetry :
        /\ telemetry[i].device_id = devices[d].id
        /\ UsageWindow[1] # None => UsageWindow[1].v <= telemetry[i].timestamp
        /\ UsageWindow[2] # None => telemetry[i].timestamp <= UsageWindow[2].v}

\* the at most UsageCap newest of them
Newest(d) ==
    LET R == ReadingsOf(d)
    IN {i \in R :
            Cardinality({j \in R : telemetry[j].timestamp > telemetry[i].timestamp})
                < UsageCap}

StatsOf(d) ==
    LET N == Newest(d)
        w == [i \in N |-> telemetry[i].energy_watts]
        top == CHOOSE i \in N : \A j \in N : w[j] <= w[i]
    IN [device_name |-> RequestedName,
        average_power |-> Rat(SetSum(N, w), Cardinality(N)),
        max_power |-> <<w[top], 1>>,
        readings_count |-> Cardinality(N)]

\* C14: an ENERGY_USAGE request whose device name matches, case aside, no
\* device of the requesting user - whoever else owns one of that name - is
\* answered with the requested name and the names of exactly the user's own
\* devices, with no data, and the answer does not depend on any reading.
C14_DeviceNotFound ==
    (UsageAnswered /\ Matching = {}) =>
        LET own == SelectSeq(devices, LAMBDA d : d.user_id = state["user_id"])
        IN /\ ~IsRaised(result)
           /\ result.data = None
           /\ Len(result.answer) = 4
           /\ result.answer[1] = Lit("I couldn't find a device named '")
           /\ result.answer[2] = Fmt(RequestedName)
           /\ result.answer[3] = Lit("'. Here are your devices: ")
           /\ \E p \in Perms(Len(own)) :
                result.answer[4] = Joined([i \in DOMAIN own |-> own[p[i]].name])
           /\ \E p \in Scans(Len(devices)) :
                result = process_query_return(state, Scan(devices, p), <<>>,
                                              now_used.v, TRUE)

\* user 1 asked for the fridge, owns only a TV, and user 2 owns a Fridge that
\* has readings
C14_Witness ==
    /\ UsageAnswered
    /\ Matching = {}
    /\ state["user_id"] = 1
    /\ Folded(RequestedName.v) = "fridge"
    /\ \E i \in DOMAIN devices : devices[i].user_id = 1
    /\ \E i \in DOMAIN devices :
        /\ devices[i].user_id = 2
        /\ devices[i].name = "Fridge"
        /\ \E r \in DOMAIN telemetry : telemetry[r].device_id = devices[i].id

UsageAnswer(stats) ==
    <<Lit("Energy usage for "), Fmt(RequestedName), Lit(" ("),
      Fmt(UsagePeriod), Lit("):\n"),
      Lit("* Average power: "), Fmt1f(stats.average_power), Lit(" watts\n"),
      Lit("* Peak power: "), Fmt1f(stats.max_power), Lit(" watts\n"),
      Lit("* Total readings: "), Fmt(PyNum(stats.readings_count))>>

NoDataAnswer ==
    <<Lit("No energy data found for "), Fmt(RequestedName),
      Lit(" in the specified time period.")>>

\* C15 as claimed: when the device name of an ENERGY_USAGE request equals, case
\* aside, the name of a device of the user that has a reading in the window,
\* the answer and data report the mean, the maximum and the count of the at
\* most 100 newest readings of that device in the window.
C15_AnyNamedDevice ==
    (UsageAnswered /\ \E d \in Matching : ReadingsOf(d) # {}) =>
        /\ ~IsRaised(result)
        /\ \E d \in Matching :
            /\ ReadingsOf(d) # {}
            /\ result.data = StatsOf(d)
            /\ result.answer = UsageAnswer(StatsOf(d))

\* C15 as amended: the request is answered for one of the user's devices of
\* that name (the first the database returns): with the mean, the maximum and
\* the count of the at most 100 newest readings of that device in the window,
\* in the answer and in data, when it has a reading in the window - so always
\* when the user owns a single device of that name, or all of them have one.
C15_UsageStatistics ==
    (UsageAnswered /\ Matching # {}) =>
        /\ ~IsRaised(result)
        /\ \E d \in Matching :
            IF ReadingsOf(d) # {}
            THEN /\ result.data = StatsOf(d)
                 /\ result.answer = UsageAnswer(StatsOf(d))
            ELSE /\ result.data = None
                 /\ result.answer = NoDataAnswer
        /\ (\A d \in Matching : ReadingsOf(d) # {}) => result.data # None

\* more readings in the window than one query fetches
C15_Witness ==
    /\ UsageAnswered
    /\ \E d \in Matching : Cardinality(ReadingsOf(d)) > UsageCap
    /\ \A d \in Matching : ReadingsOf(d) # {}
    /\ result.data.readings_count = UsageCap

\* C16: an ENERGY_USAGE request for a device of the user that has no reading
\* in the window is answered with 'No energy data found for <name> in the
\* specified time period.' and no data - not with the generic error answer.
C16_NoDataInWindow ==
    /\ (UsageAnswered /\ Matching # {} /\ \A d \in Matching : ReadingsOf(d) = {}) =>
            /\ ~IsRaised(result)
            /\ result.answer = NoDataAnswer
            /\ result.data = None
    /\ (UsageAnswered /\ \E d \in Matching : ReadingsOf(d) = {}) =>
            /\ ~IsRaised(result)
            /\ result.answer # <<Lit(ErrorText)>>
            /\ result.data = None => result.answer = NoDataAnswer

\* the device has readings, none of them in the window asked for
C16_Witness ==
    /\ UsageAnswered
    /\ Matching # {}
    /\ \A d \in Matching : ReadingsOf(d) = {}
    /\ \E d \in Matching : \E i \in DOMAIN telemetry :
            telemetry[i].device_id = devices[d].id
    /\ result.data = None

(***************************************************************************)
(* The chat pipeline when the extraction NLM answers with text that is no  *)
(* JSON: bare text, nothing at all, or a fenced block holding no document. *)
(***************************************************************************)

SummaryExtractResponses ==
    {LLMReturns(<<"x">>), LLMReturns(<<>>),
     LLMReturns(FenceJson \o <<"\n", "x", "\n">> \o Fence)}

SummaryParseQueryNode == ParseQueryNodeWith(SummaryExtractResponses)

NextSummary ==
    \/ \E q \in Queries, u \in Users, c \in ChatIds : ProcessQuery(q, u, c)
    \/ ClassifyIntentNode
    \/ ValidateUserAccessNode
    \/ EnrichContextNode
    \/ SummaryParseQueryNode
    \/ GenerateResponseNode
    \/ Respond
    \/ Return

SpecSummary == InitUsage /\ [][NextSummary]_vars

\* the request is an ENERGY_SUMMARY query, answered with the storage working
SummaryAnswered ==
    /\ pc = "returned"
    /\ state["intent"] = "ENERGY_SUMMARY"
    /\ ~StorageFailed

\* rows of the readings of the requesting user's devices taken on the day of
\* the request, up to its last second
TodayReadings ==
    LET start == now_used.v - (now_used.v % DaySeconds)
    IN {i \in DOMAIN telemetry :
            /\ \E d \in DOMAIN devices : /\ devices[d].user_id = state["user_id"]
                                         /\ devices[d].id = telemetry[i].device_id
            /\ start <= telemetry[i].timestamp
            /\ telemetry[i].timestamp <= start + DaySeconds - 1}

SummaryAnswer(period, count, average, max, min) ==
    <<Lit("Energy summary ("), Fmt(period), Lit("):\n"),
      Lit("* Average power: "), Fmt1f(average), Lit(" watts\n"),
      Lit("* Peak power: "), Fmt1f(max), Lit(" watts\n"),
      Lit("* Minimum power: "), Fmt1f(min), Lit(" watts\n"),
      Lit("* Total readings: "), Fmt(PyNum(count))>>

\* C17: when the intent is ENERGY_SUMMARY and the extraction NLM returns text
\* that is no JSON, the parameter record is empty and the answer is a summary
\* - not the generic error answer - whose count, mean, maximum and minimum are
\* those of the user's readings of today.
C17_SummaryAfterNonJson ==
    SummaryAnswered =>
        LET N == TodayReadings
            w == [i \in DOMAIN telemetry |-> telemetry[i].energy_watts]
        IN /\ state["parsed_query"] = EmptyDict
           /\ ~IsRaised(result)
           /\ result.answer # <<Lit(ErrorText)>>
           /\ result.answer =
                IF N = {}
                THEN SummaryAnswer(PyStr("today"), 0, <<0, 1>>, <<0, 1>>, <<0, 1>>)
                ELSE SummaryAnswer(PyStr("today"), Cardinality(N),
                        Rat(SetSum(N, w), Cardinality(N)),
                        <<w[CHOOSE i \in N : \A j \in N : w[j] <= w[i]], 1>>,
                        <<w[CHOOSE i \in N : \A j \in N : w[j] >= w[i]], 1>>)

(***************************************************************************)
(* Devices that are renamed and switched off and on between chat requests, *)
(* and the DEVICE_LIST handler.                                            *)
(***************************************************************************)

\* the bodies of PUT /devices/{device_id}: DeviceUpdate, a field left out is None
DeviceUpdates ==
    { [name |-> None, device_type |-> None, is_active |-> PyBool(FALSE)],
      [name |-> None, device_type |-> None, is_active |-> PyBool(TRUE)],
      [name |-> PyStr("TV"), device_type |-> PyStr("tv"), is_active |-> None] }

\* the device ids a client may send: those of the stored devices and one of none
RequestDeviceIds == {DeviceUuid(i) : i \in 1..(MaxDevices + 2)}

\* DeviceService.update_device
UpdateDevice(device_id, device_data, user_id, db_ok) ==
    /\ pc = "idle"
    /\ LET found == FindOwnedDevice(devices, device_id, user_id)
       IN IF found = <<>>
          THEN /\ fn_out' = [fn |-> "update_device", value |-> 404,
                             args |-> <<device_id, user_id>>]
               /\ devices' = devices
          ELSE IF ~db_ok
          THEN /\ fn_out' = [fn |-> "update_device", value |-> 500]
               /\ devices' = devices
          ELSE LET device == found[1]
                   named == IF device_data.name # None
                            THEN [device EXCEPT !.name = device_data.name.v]
                            ELSE device
                   typed == IF device_data.device_type # None
                            THEN [named EXCEPT !.device_type = device_data.device_type.v]
                            ELSE named
                   updated == IF device_data.is_active # None
                              THEN [typed EXCEPT !.is_active = device_data.is_active.v]
                              ELSE typed
               IN /\ devices' = [i \in DOMAIN devices |->
                                    IF devices[i].id = device.id THEN updated
                                    ELSE devices[i]]
                  /\ fn_out' = [fn |-> "update_device", value |-> 200]
    /\ UNCHANGED <<telemetry, next_device_pk, next_reading_pk, pc, state, result,
                   trace, now_used, llm_response, restVars>>

DeviceClassifyResponses ==
    {LLMRaises,
     LLMReturns(<<" ">> \o replace(NameChars("DEVICE_LIST"), "_", " ") \o <<"\n">>)}

DeviceClassifyIntentNode == ClassifyIntentNodeWith(DeviceClassifyResponses)

\* (neither DEVICE_LIST nor OFF_TOPIC is routed through enrich_context)

NextDevices ==
    \/ \E id \in RequestDeviceIds, body \in DeviceUpdates, u \in Users,
          db_ok \in BOOLEAN : UpdateDevice(id, body, u, db_ok)
    \/ \E q \in Queries, u \in Users, c \in ChatIds : ProcessQuery(q, u, c)
    \/ DeviceClassifyIntentNode
    \/ ValidateUserAccessNode
    \/ ParseQueryNode
    \/ GenerateResponseNode
    \/ Respond
    \/ Return

SpecDevices == InitUsage /\ [][NextDevices]_vars

\* the request is a DEVICE_LIST query, answered with the storage working
DeviceListAnswered ==
    /\ pc = "returned"
    /\ state["intent"] = "DEVICE_LIST"
    /\ ~StorageFailed

\* rows of the devices of the requesting user
OwnRows == {i \in DOMAIN devices : devices[i].user_id = state["user_id"]}

\* C18: the data of a DEVICE_LIST answer lists exactly the devices of the
\* requesting user, each once, switched on or off, each with its name, type
\* and own active flag, whatever readings are stored and whatever the query
\* says about time; no device of another user is listed. (A user without
\* devices gets no list at all.)
C18_DeviceList ==
    DeviceListAnswered =>
        /\ ~IsRaised(result)
        /\ IF OwnRows = {}
           THEN /\ result.data = None
                /\ result.answer = <<Lit("You don't have any devices registered yet.")>>
           ELSE /\ DOMAIN result.data = {"devices"}
                /\ \E f \in [DOMAIN result.data.devices -> OwnRows] :
                    /\ \A i, j \in DOMAIN f : f[i] = f[j] => i = j
                    /\ \A d \in OwnRows : \E i \in DOMAIN f : f[i] = d
                    /\ \A i \in DOMAIN f :
                        result.data.devices[i] =
                            [name |-> devices[f[i]].name,
                             type |-> devices[f[i]].device_type,
                             active |-> devices[f[i]].is_active]
        /\ \E p \in Scans(Len(devices)) :
                result = process_query_return(state, Scan(devices, p), <<>>,
                                              now_used.v, TRUE)

\* a user with a device switched off and a device switched on, next to a device
\* of somebody else, with readings stored
C18_Witness ==
    /\ DeviceListAnswered
    /\ \E d, e \in OwnRows : ~devices[d].is_active /\ devices[e].is_active
    /\ OwnRows # DOMAIN devices
    /\ telemetry # <<>>
    /\ Len(result.data.devices) = 2

(***************************************************************************)
(* The chat_id of a request.                                               *)
(***************************************************************************)

\* chat ids a request could have carried instead
OtherChatIds == {GeneratedChatId, "session-67890"}

\* the chat_id is carried through the graph untouched and returned
ChatIdCarried ==
    /\ (state # <<>> /\ state' # <<>>) => state'["chat_id"] = state["chat_id"]
    /\ (pc' = "returned" /\ ~IsRaised(result')) =>
            result'.chat_id = state'["chat_id"]

\* the intent is what the classifier makes of the NLM's reply, whatever the
\* chat_id; answer and data are those of the same request under any other
\* chat_id
ChatIdWithoutInfluence ==
    /\ pc = "classify_intent" =>
            \E response \in PipelineClassifyResponses :
                \A c \in OtherChatIds :
                    LET other == Upd(Upd(state, "chat_id", c), "intent",
                                     classify_intent(response))
                    IN /\ other = Upd(state', "chat_id", c)
                       /\ route_after_classification(other) = pc'
    /\ (pc' = "returned" /\ pc = "END") =>
            \A c \in OtherChatIds :
                \E p \in Scans(Len(devices)) :
                    LET other == process_query_return(Upd(state, "chat_id", c),
                                    Scan(devices, p), telemetry, now_used'.v,
                                    ~StorageFailed')
                    IN /\ other.chat_id = c
                       /\ other.answer = result'.answer
                       /\ other.data = result'.data

\* C19 as claimed: process_query returns the chat_id it was given whenever one
\* was given and a generated one when none was given; the chat_id has no
\* influence on the intent, the answer or the data.
C19_SuppliedChatIdReturned ==
    [][/\ \A q \in Queries, u \in Users, c \in ChatIds :
            ProcessQuery(q, u, c) =>
                state'["chat_id"] = IF c = None THEN GeneratedChatId ELSE c.v
       /\ ChatIdCarried
       /\ ChatIdWithoutInfluence]_vars

\* C19 as amended: process_query returns the chat_id it was given whenever a
\* non-empty one was given, and a generated one when none or the empty string
\* was given; the chat_id has no influence on the intent, the answer or the
\* data.
C19_ChatIdReturned ==
    [][/\ \A q \in Queries, u \in Users, c \in ChatIds :
            ProcessQuery(q, u, c) =>
                state'["chat_id"] = IF c \in {None, PyStr("")} THEN GeneratedChatId
                                    ELSE c.v
       /\ ChatIdCarried
       /\ ChatIdWithoutInfluence]_vars

\* a request that carried a chat_id is answered with statistics under that id
C19_Witness ==
    /\ UsageAnswered
    /\ result.chat_id = "session-12345"
    /\ result.data # None

(***************************************************************************)
(* POST /api/telemetry: readings sent for device ids that exist and for    *)
(* device ids that do not.                                                 *)
(***************************************************************************)

\* db.query(Device).filter(Device.device_id == telemetry_data.device_id)
FirstDevice(D, device_id) == D
DeviceWithDeviceId(D, device_id) == SelectSeq(D, LAMBDA d : d.device_id = device_id)

\* TelemetryService.ingest_telemetry; db_ok = FALSE is a commit that raises
IngestTelemetryRequest(device_id, timestamp, energy_watts, db_ok) ==
    /\ pc = "idle"
    /\ LET found == DeviceWithDeviceId(devices, device_id)
       IN IF found = <<>>
          THEN /\ ingest_out' = [status |-> 404, device_id |-> device_id]
               /\ UNCHANGED <<telemetry, next_reading_pk>>
          ELSE /\ Len(telemetry) < MaxReadings
               /\ IF db_ok
                  THEN LET db_telemetry ==
                              [id |-> next_reading_pk, device_id |-> found[1].id,
                               timestamp |-> timestamp,
                               energy_watts |-> energy_watts]
                       IN /\ telemetry' = Append(telemetry, db_telemetry)
                          /\ next_reading_pk' = next_reading_pk + 1
                          /\ ingest_out' = [status |-> 200, row |-> db_telemetry]
                  ELSE /\ ingest_out' = [status |-> 500, device_id |-> device_id]
                       /\ UNCHANGED <<telemetry, next_reading_pk>>
    /\ UNCHANGED <<devices, next_device_pk, pc, state, result, trace, now_used,
                   textVars, rank_out, rank_again, served, concVars>>

NextIngest ==
    \/ \E kind \in DeviceKinds : CreateDevice(kind[1], kind[2])
    \/ \E id \in RequestDeviceIds, ts \in Timestamps, w \in Watts, db_ok \in BOOLEAN :
            IngestTelemetryRequest(id, ts, w, db_ok)

SpecIngest == Init /\ [][NextIngest]_vars

\* C20: ingest_telemetry for a device_id that no stored device has fails with
\* 404 and leaves readings and devices as they are; for a device_id of a
\* stored device it appends exactly one reading, with the timestamp and the
\* watts sent, attached to that device, and changes no reading stored before
\* (when the commit fails, it fails with 500 and stores nothing).
C20_Ingest ==
    [][\A id \in RequestDeviceIds, ts \in Timestamps, w \in Watts, db_ok \in BOOLEAN :
            IngestTelemetryRequest(id, ts, w, db_ok) =>
                /\ devices' = devices
                /\ IF \A d \in DOMAIN devices : devices[d].device_id # id
                   THEN /\ ingest_out'.status = 404
                        /\ telemetry' = telemetry
                   ELSE IF db_ok
                   THEN /\ ingest_out'.status = 200
                        /\ Len(telemetry') = Len(telemetry) + 1
                        /\ \A i \in DOMAIN telemetry : telemetry'[i] = telemetry[i]
                        /\ \E d \in DOMAIN devices :
                            /\ devices[d].device_id = id
                            /\ telemetry'[Len(telemetry')].device_id = devices[d].id
                        /\ telemetry'[Len(telemetry')].timestamp = ts
                        /\ telemetry'[Len(telemetry')].energy_watts = w
                        /\ \A i \in DOMAIN telemetry :
                            telemetry[i].id # telemetry'[Len(telemetry')].id
                   ELSE /\ ingest_out'.status = 500
                        /\ telemetry' = telemetry]_vars

\* a reading for an unknown device_id was refused while devices and readings
\* are stored
C20_Witness ==
    /\ "status" \in DOMAIN ingest_out
    /\ ingest_out.status = 404
    /\ devices # <<>>
    /\ telemetry # <<>>

(***************************************************************************)
(* Devices created, changed and deleted, readings ingested and read, by    *)
(* their owners and by other users.                                        *)
(***************************************************************************)

\* db.delete(device); db.commit().  Device.telemetry_data has no delete cascade,
\* so the flush first detaches the device's readings (UPDATE telemetry SET
\* device_id = NULL), which the column's nullable=False refuses: the commit
\* raises whenever the device has a reading.
delete_detached(D, T, device) ==
    [k |-> "rows", v |-> SelectSeq(D, LAMBDA d : d.id # device.id)]
delete_and_commit(D, T, device) ==
    IF \E i \in DOMAIN T : T[i].device_id = device.id
    THEN Raised
    ELSE [k |-> "rows", v |-> SelectSeq(D, LAMBDA d : d.id # device.id)]

\* what a device call answered: its status and, when refused, what was asked
Outcome(fn, status, device_id, user_id) ==
    IF status = 404
    THEN [fn |-> fn, value |-> status, args |-> <<device_id, user_id>>]
    ELSE [fn |-> fn, value |-> status]

\* DeviceService.delete_device; db_ok = FALSE is a commit that raises.  It runs
\* at any time, also while a chat request is being served.  A reading inserted
\* by a transaction that has not committed yet holds the device row: the DELETE
\* waits for that transaction and then fails on the foreign key.
DeleteDevice(device_id, user_id, db_ok) ==
    /\ LET found == FindOwnedDevice(devices, device_id, user_id)
           left == IF found = <<>> THEN Raised
                   ELSE delete_and_commit(devices, telemetry \o pending, found[1])
       IN IF found = <<>>
          THEN /\ fn_out' = Outcome("delete_device", 404, device_id, user_id)
               /\ devices' = devices
          ELSE IF ~db_ok \/ IsRaised(left)
          THEN /\ fn_out' = Outcome("delete_device", 500, device_id, user_id)
               /\ devices' = devices
          ELSE /\ devices' = left.v
               /\ fn_out' = Outcome("delete_device", 204, device_id, user_id)
    /\ UNCHANGED <<telemetry, next_device_pk, next_reading_pk, pc, state, result,
                   trace, now_used, llm_response, restVars>>

\* GET /api/telemetry/device/{device_id}: TelemetryService.get_telemetry_by_device
GetDeviceTelemetry(device_id, user_id) ==
    /\ pc = "idle"
    /\ LET rows == get_telemetry_by_device(devices, telemetry, device_id, user_id,
                                           None, None, PyNum(100))
       IN fn_out' = Outcome("get_telemetry_by_device",
                            IF IsRaised(rows) THEN 404 ELSE 200, device_id, user_id)
    /\ UNCHANGED <<storeVars, pc, state, result, trace, now_used, llm_response,
                   restVars>>

\* the devices and requests of this specification
MaxStoreReadings == 1
StoreKinds == {<<1, "Fridge">>, <<2, "Fridge">>}
StoreUpdates ==
    { [name |-> PyStr("TV"), device_type |-> PyStr("tv"), is_active |-> PyBool(FALSE)] }
StoreDeviceIds == {DeviceUuid(i) : i \in 1..(MaxDevicePk + 1)}

NextStore ==
    \/ \E kind \in StoreKinds : CreateDevice(kind[1], kind[2])
    \/ \E id \in StoreDeviceIds, body \in StoreUpdates, u \in Users,
          db_ok \in BOOLEAN : UpdateDevice(id, body, u, db_ok)
    \/ \E id \in StoreDeviceIds, u \in Users, db_ok \in BOOLEAN :
            DeleteDevice(id, u, db_ok)
    \/ \E id \in StoreDeviceIds, ts \in Timestamps :
            /\ Len(telemetry) < MaxStoreReadings
            /\ IngestTelemetry(id, ts, 30)
    \/ \E id \in StoreDeviceIds, u \in Users : GetDeviceTelemetry(id, u)

SpecStore == Init /\ [][NextStore]_vars

\* every reading refers to exactly one stored device
ReadingsResolve ==
    \A i \in DOMAIN telemetry :
        Cardinality({d \in DOMAIN devices : devices[d].id = telemetry[i].device_id}) = 1

OthersDevice(device_id, user_id) ==
    \E d \in DOMAIN devices : /\ devices[d].device_id = device_id
                              /\ devices[d].user_id # user_id

\* C29: whatever devices are created, updated and deleted, by whom ever, a
\* device belongs to the user who created it and keeps its device_id;
\* update_device, delete_device and get_telemetry_by_device for a device of
\* another user are refused as not found (404) and leave every device and
\* every reading as it was.
C29_OwnershipKept ==
    [][/\ \A d \in DOMAIN devices, e \in DOMAIN devices' :
            devices[d].id = devices'[e].id =>
                /\ devices'[e].user_id = devices[d].user_id
                /\ devices'[e].device_id = devices[d].device_id
       /\ \A kind \in StoreKinds :
            CreateDevice(kind[1], kind[2]) =>
                /\ devices'[Len(devices')].user_id = kind[1]
                /\ SubSeq(devices', 1, Len(devices)) = devices
                /\ \A d \in DOMAIN devices :
                    /\ devices[d].id # devices'[Len(devices')].id
                    /\ devices[d].device_id # devices'[Len(devices')].device_id
       /\ \A id \in StoreDeviceIds, u \in Users :
            (/\ OthersDevice(id, u)
             /\ \/ \E body \in StoreUpdates, db_ok \in BOOLEAN :
                        UpdateDevice(id, body, u, db_ok)
                \/ \E db_ok \in BOOLEAN : DeleteDevice(id, u, db_ok)
                \/ GetDeviceTelemetry(id, u)) =>
                /\ fn_out'.value = 404
                /\ devices' = devices
                /\ telemetry' = telemetry]_vars

\* a user's update of a device that another user owns was refused, with a
\* reading stored
C29_Witness ==
    /\ fn_out.fn = "update_device"
    /\ fn_out.value = 404
    /\ OthersDevice(fn_out.args[1], fn_out.args[2])
    /\ telemetry # <<>>

(***************************************************************************)
(* The ranking as the chat handlers ask for it.                            *)
(***************************************************************************)

\* the request is a TOP_CONSUMERS or DEVICE_COMPARISON query whose parameters
\* are a record, answered with the storage working
RankingAnswered ==
    /\ pc = "returned"
    /\ result # NoResult
    /\ state["intent"] \in {"TOP_CONSUMERS", "DEVICE_COMPARISON"}
    /\ ~StorageFailed
    /\ state["parsed_query"].k = "dict"
    /\ ~IsRaised(result)

\* the ranked entries of the answer
RankedEntries ==
    IF result.data = None THEN <<>> ELSE result.data.top_consumers

\* the limit asked for: that of the record, 5 when it has none or null
RequestedLimit ==
    LET limit == DictGet(state["parsed_query"], "limit", None)
    IN IF limit = None THEN 5 ELSE limit.v

\* the window of the record's time_period
RankingWindow ==
    get_time_range(DictGet(state["parsed_query"], "time_period", PyStr("today")),
                   now_used.v)

\* rows of the readings of the device with primary key pk inside the window
RankingReadings(pk) ==
    {i \in DOMAIN telemetry :
        /\ telemetry[i].device_id = pk
        /\ RankingWindow[1] # None => RankingWindow[1].v <= telemetry[i].timestamp
        /\ RankingWindow[2] # None => telemetry[i].timestamp <= RankingWindow[2].v}

\* rows of the requesting user's devices with a reading inside the window
RankedDevices ==
    {d \in DOMAIN devices : /\ devices[d].user_id = state["user_id"]
                            /\ RankingReadings(devices[d].id) # {}}

\* C24: a TOP_CONSUMERS or DEVICE_COMPARISON answer ranks min(L, 10, n)
\* entries, n the number of the user's devices with a reading in the window
\* and L the limit of the parameter record, 5 when the record has none or null.
C24_RankedCount ==
    RankingAnswered =>
        LET n == Cardinality(RankedDevices)
            L == RequestedLimit
            least == IF L <= MaxRanked /\ L <= n THEN L
                     ELSE IF MaxRanked <= n THEN MaxRanked ELSE n
        IN Len(RankedEntries) = least

\* C25: when the parameter record of a TOP_CONSUMERS or DEVICE_COMPARISON
\* request has a time_period, every ranked device has a reading inside the
\* window of that period and its average is that of its readings inside the
\* window; readings outside the window change nothing.
C25_RankingInsideWindow ==
    (/\ RankingAnswered
     /\ "time_period" \in DOMAIN state["parsed_query"].v
     /\ state["parsed_query"].v.time_period # None) =>
        /\ \A i \in DOMAIN RankedEntries :
            LET N == RankingReadings(PkOf(RankedEntries[i]))
                w == [j \in DOMAIN telemetry |-> telemetry[j].energy_watts]
            IN /\ N # {}
               /\ RankedEntries[i].average_power_watts
                    = Rat(SetSum(N, w), Cardinality(N))
        /\ \E p \in Scans(Len(devices)) :
            result.data = process_query_return(state, Scan(devices, p),
                            SelectSeq(telemetry, LAMBDA t :
                                \E d \in DOMAIN devices :
                                    t \in {telemetry[j] : j \in RankingReadings(devices[d].id)}),
                            now_used.v, TRUE).data

(***************************************************************************)
(* Summaries over all devices of a user: ENERGY_SUMMARY, and ENERGY_USAGE  *)
(* without a device name.                                                  *)
(***************************************************************************)

\* the request asks for a summary over all devices of the user, its parameters
\* are a record, and it was answered with the storage working
AllDevicesAnswered ==
    /\ pc = "returned"
    /\ ~StorageFailed
    /\ state["intent"] \in {"ENERGY_SUMMARY", "ENERGY_USAGE"}
    /\ state["parsed_query"].k = "dict"
    /\ state["intent"] = "ENERGY_USAGE" =>
            DictGet(state["parsed_query"], "device_name", None) \in {None, PyStr("")}

\* rows of the readings of the requesting user's devices from start to end
OwnReadings(start, end) ==
    {i \in DOMAIN telemetry :
        /\ \E d \in DOMAIN devices : /\ devices[d].user_id = state["user_id"]
                                     /\ devices[d].id = telemetry[i].device_id
        /\ start # None => start.v <= telemetry[i].timestamp
        /\ end # None => telemetry[i].timestamp <= end.v}

\* C22: an ENERGY_SUMMARY request, or an ENERGY_USAGE request without device
\* name, of a user whose devices have no reading in the window - or who owns
\* no device - is answered with a summary that reports zero readings, never
\* with the generic error answer.
C22_EmptySummary ==
    (AllDevicesAnswered /\ OwnReadings(UsageWindow[1], UsageWindow[2]) = {}) =>
        /\ ~IsRaised(result)
        /\ result.answer # <<Lit(ErrorText)>>
        /\ result.answer[Len(result.answer)] = Fmt(PyNum(0))
        /\ result.data # None
        /\ result.data.reading_count = 0

\* the request is an ENERGY_USAGE or ENERGY_SUMMARY query whose parameters are a
\* record that leaves time_period out or gives null for it, answered with the
\* storage working
PeriodUnset ==
    /\ pc = "returned"
    /\ ~StorageFailed
    /\ state["intent"] \in {"ENERGY_SUMMARY", "ENERGY_USAGE"}
    /\ state["parsed_query"].k = "dict"
    /\ DictGet(state["parsed_query"], "time_period", None) = None

\* the parameter record with time_period = today
WithToday(parsed_query) ==
    PyDict([x \in DOMAIN parsed_query.v \cup {"time_period"} |->
                IF x = "time_period" THEN PyStr("today") ELSE parsed_query.v[x]])

\* C23: an ENERGY_USAGE or ENERGY_SUMMARY request whose parameter record has
\* no time_period, or null for it, is answered with the statistics of the
\* request whose time_period is today.
C23_UnsetPeriodIsToday ==
    PeriodUnset =>
        /\ ~IsRaised(result)
        /\ \E p \in Scans(Len(devices)) :
            result.data =
                process_query_return(
                    Upd(state, "parsed_query", WithToday(state["parsed_query"])),
                    Scan(devices, p), telemetry, now_used.v, TRUE).data

\* C30: whatever the extraction NLM returns - also JSON that is no object:
\* null, a number, a string, a list - the parameters kept in the request state
\* and handed to the handlers are a key-value record, possibly empty.
C30_ParametersAreRecord ==
    (state # <<>> /\ "parsed_query" \in DOMAIN state) =>
        state["parsed_query"].k = "dict"

----------------------------------------------------------------------------
(* The chat request and the store *)

\* C26: no step of a chat request, from process_query being entered to its return,
\* whatever the intent and however the request ends, changes the stored devices or
\* telemetry rows or the primary-key sequences.
C26_ChatLeavesStore ==
    [][(pc # "idle" \/ pc' # "idle") => UNCHANGED storeVars]_vars

\* a request whose handler read the store has returned while rows are stored
C26_Witness ==
    /\ pc = "returned"
    /\ devices # <<>>
    /\ telemetry # <<>>
    /\ trace # <<>>
    /\ trace[Len(trace)] = "db.read"
    /\ ~IsRaised(result)

\* one request after another, the history recording that one was answered
NextTurns ==
    \/ \E k \in DeviceKinds :
            DeviceInOrder(k[1], k[2]) /\ CreateDevice(k[1], k[2])
    \/ \E i \in 1..MaxDevices, ts \in Timestamps, w \in Watts :
            ReadingInOrder(i, ts, w) /\ IngestTelemetry(DeviceUuid(i), ts, w)
    \/ \E q \in Queries, u \in Users, c \in ChatIds : ProcessQuery(q, u, c)
    \/ ClassifyIntentNode
    \/ ValidateUserAccessNode
    \/ EnrichContextNode
    \/ ParseQueryNode
    \/ GenerateResponseNode
    \/ Respond
    \/ ReturnWith(TRUE)

SpecTurns == Init /\ [][NextTurns]_vars

\* what a request is answered from: its own inputs and the two NLM outcomes
RequestOnly(s) ==
    LET own == Upd([chat_id |-> s["chat_id"], query |-> s["query"],
                    user_id |-> s["user_id"]], "intent", s["intent"])
    IN IF "parsed_query" \in DOMAIN s THEN Upd(own, "parsed_query", s["parsed_query"])
       ELSE own

\* nothing of a finished request is left
NothingKept ==
    pc = "idle" =>
        /\ state = <<>>
        /\ result = NoResult
        /\ trace = <<>>
        /\ now_used = None

\* the answer and data follow from the request's own inputs, the NLM outcomes, the
\* instant, the stored rows and the order in which the database hands them out
AnswerFromRequestOnly ==
    pc = "returned" =>
        \E p \in Scans(Len(devices)) :
            result = process_query_return(RequestOnly(state), Scan(devices, p),
                                          telemetry, now_used.v, ~StorageFailed)

----------------------------------------------------------------------------
(***************************************************************************)
(* Requests served at the same time.  The routes are plain functions, which *)
(* the server runs on worker threads, each with a session of its own; every *)
(* statement of a session reads the rows committed when it starts.          *)
(***************************************************************************)

MaxPending == 1
MaxConcReadings == 2
\* primary keys of readings are handed out once; no more than these are
MaxConcReadingPk == MaxConcReadings + 1

\* the devices of user 1, and n readings of the first, all of today
ConcDevices == UsageDevices(<<(<<1, "Fridge">>), (<<1, "TV">>)>>)
ConcReadings(n) ==
    [k \in 1..n |-> [id |-> k, device_id |-> 1,
                     timestamp |-> UsageNow - k * 600, energy_watts |-> 10 * k]]

InitConc ==
    \E n \in 0..(MaxConcReadings - 1) :
        /\ devices = ConcDevices
        /\ telemetry = ConcReadings(n) \o <<>>
        /\ next_device_pk = Len(devices) + 1
        /\ next_reading_pk = n + 1
        /\ pc = "idle"
        /\ state = <<>>
        /\ result = NoResult
        /\ trace = <<>>
        /\ now_used = None
        /\ llm_response = LLMRaises
        /\ fn_out = [fn |-> "none"]
        /\ rank_out = NoResult
        /\ rank_again = NoResult
        /\ ingest_out = NoResult
        /\ served = FALSE
        /\ seen = NoResult
        /\ pending = <<>>

\* ingest_telemetry up to the INSERT that db.commit() flushes: the row is written
\* and not yet committed.  (A device deleted between the lookup and the INSERT
\* makes the INSERT fail; nothing is stored then, as when the lookup fails.)
IngestInsert(device_id, timestamp, energy_watts) ==
    /\ Len(pending) < MaxPending
    /\ Len(telemetry) + Len(pending) < MaxConcReadings
    /\ next_reading_pk <= MaxConcReadingPk
    /\ LET found == DeviceWithDeviceId(devices, device_id)
       IN IF found = <<>>
          THEN /\ ingest_out' = [status |-> 404, device_id |-> device_id]
               /\ UNCHANGED <<pending, next_reading_pk>>
          ELSE /\ pending' = Append(pending,
                        [id |-> next_reading_pk, device_id |-> found[1].id,
                         timestamp |-> timestamp, energy_watts |-> energy_watts])
               /\ next_reading_pk' = next_reading_pk + 1
               /\ ingest_out' = ingest_out
    /\ UNCHANGED <<devices, telemetry, next_device_pk, pc, state, result, trace,
                   now_used, textVars, rank_out, rank_again, served, seen>>

\* the COMMIT of ingest_telemetry; db_ok = FALSE is a commit that raises and is
\* rolled back
IngestCommit(db_ok) ==
    /\ pending # <<>>
    /\ IF db_ok
       THEN /\ telemetry' = Append(telemetry, pending[1])
            /\ ingest_out' = [status |-> 200, row |-> pending[1]]
       ELSE /\ telemetry' = telemetry
            /\ ingest_out' = [status |-> 500, device_id |-> pending[1].device_id]
    /\ pending' = Tail(pending)
    /\ UNCHANGED <<devices, next_device_pk, next_reading_pk, pc, state, result, trace,
                   now_used, textVars, rank_out, rank_again, served, seen>>

\* the rows a statement reads: those committed, none of those still pending
WithPending(T, P) == T \o P
Committed(T, P) == T

\* the request names a device: the handler will call get_telemetry_by_device
NamesDevice(s) ==
    /\ s["intent"] = "ENERGY_USAGE"
    /\ "parsed_query" \in DOMAIN s
    /\ HasGet(s["parsed_query"])
    /\ Truthy(DictGet(s["parsed_query"], "device_name", None))

\* the handler's first statement: the devices of the user (get_user_devices, or
\* the device query of get_energy_summary), after datetime.utcnow() was read
ReadDevices ==
    /\ pc = "END"
    /\ \E now \in Nows, p \in Scans(Len(devices)) :
           /\ now_used' = PyTime(now)
           /\ seen' = [devices |-> Scan(devices, p)]
    /\ pc' = IF NamesDevice(state) THEN "owner_check" ELSE "fetch"
    /\ UNCHANGED <<storeVars, state, result, trace, textVars, rank_out, rank_again,
                   ingest_out, served, pending>>

\* the ownership check of get_telemetry_by_device
CheckOwner ==
    /\ pc = "owner_check"
    /\ seen' = [devices |-> seen.devices, checked |-> devices]
    /\ pc' = "fetch"
    /\ UNCHANGED <<storeVars, state, result, trace, now_used, textVars, rank_out,
                   rank_again, ingest_out, served, pending>>

\* the reading query of get_telemetry_by_device, or the aggregate of
\* get_energy_summary; the handler then composes the answer and process_query
\* returns
FetchReadings ==
    /\ pc = "fetch"
    /\ LET T == Committed(telemetry, pending)
           parsed_query == IF "parsed_query" \in DOMAIN state
                           THEN state["parsed_query"] ELSE EmptyDict
           r == IF state["intent"] = "ENERGY_USAGE"
                THEN handle_energy_usage_query_at(state, parsed_query, seen.devices,
                        IF "checked" \in DOMAIN seen THEN seen.checked
                        ELSE seen.devices,
                        T, now_used.v)
                ELSE Dispatch(state, parsed_query, seen.devices, T, now_used.v, TRUE)
       IN result' = ReturnedDict(state,
                        IF IsRaised(r) THEN generate_error_response(state) ELSE r)
    /\ trace' = Append(trace, "db.read")
    /\ pc' = "returned"
    /\ UNCHANGED <<storeVars, state, now_used, textVars, rank_out, rank_again,
                   ingest_out, served, concVars>>

\* the NLM outcomes of this pipeline
ConcClassifyResponses ==
    {LLMReturns(NameChars("ENERGY_USAGE")), LLMReturns(NameChars("ENERGY_SUMMARY"))}
ConcExtractResponses ==
    {LLMReturns(FenceJson \o <<"\n", d, "\n">> \o Fence) :
        d \in {"{}",
               "{\"device_name\": \"fridge\", \"time_period\": \"today\", \"limit\": 50}"}}

ConcClassifyIntentNode == ClassifyIntentNodeWith(ConcClassifyResponses)
ConcParseQueryNode == ParseQueryNodeWith(ConcExtractResponses)

NextConc ==
    \/ ProcessQuery("How much energy did my fridge use yesterday?", 1, None)
    \/ ConcClassifyIntentNode
    \/ ValidateUserAccessNode
    \/ EnrichContextNode
    \/ ConcParseQueryNode
    \/ GenerateResponseNode
    \/ ReadDevices
    \/ CheckOwner
    \/ FetchReadings
    \/ Return
    \/ \E i \in 1..2, ts \in Timestamps : IngestInsert(DeviceUuid(i), ts, 30)
    \/ \E db_ok \in BOOLEAN : IngestCommit(db_ok)
    \/ \E i \in 1..2 : DeleteDevice(DeviceUuid(i), 1, TRUE)

SpecConc == InitConc /\ [][NextConc]_vars

\* the request ends with an answer
ConcAnswered ==
    pc = "returned" => (~IsRaised(result) /\ AnswerNonEmpty(result.answer))

\* the committed readings the request asks about, as stored at this instant:
\* those of the user's stored devices (of the one named, when one is named)
\* inside the window
AskedReadings ==
    LET parsed_query == state["parsed_query"]
        window == get_time_range(DictGet(parsed_query, "time_period", PyStr("today")),
                                 now_used.v)
        asked(d) == /\ d.user_id = state["user_id"]
                    /\ NamesDevice(state) =>
                            StrLower(d.name)
                                = StrLower(DictGet(parsed_query, "device_name", None).v)
    IN SelectSeq(telemetry,
            LAMBDA t : /\ InWindow(t, window[1], window[2])
                       /\ \E i \in DOMAIN devices :
                            devices[i].id = t.device_id /\ asked(devices[i]))

\* the statistics in data are those of these rows
StatisticsOf(data, rows) ==
    LET w == [i \in DOMAIN rows |-> rows[i].energy_watts]
        zero == <<0, 1>>
    IN IF data = None THEN rows = <<>>
       ELSE IF "readings_count" \in DOMAIN data
       THEN /\ rows # <<>>
            /\ data.readings_count = Len(rows)
            /\ data.average_power = Rat(SumOf(w), Len(w))
            /\ data.max_power = <<MaxOf(w), 1>>
       ELSE /\ data.reading_count = Len(rows)
            /\ data.average_power_watts
                    = (IF rows = <<>> THEN zero ELSE Rat(SumOf(w), Len(w)))
            /\ data.max_power_watts = (IF rows = <<>> THEN zero ELSE <<MaxOf(w), 1>>)
            /\ data.min_power_watts = (IF rows = <<>> THEN zero ELSE <<MinOf(w), 1>>)

\* C28: while readings are inserted and committed and devices are deleted at any
\* point of a chat request, the request ends with a non-empty answer and never
\* with an exception, also when a device it looked up is gone before it fetches;
\* and the count, average, maximum and minimum it reports are those of the
\* readings committed at the instant of its reading query, none of them a row
\* still uncommitted.
C28_ConcurrentQuery ==
    /\ []ConcAnswered
    /\ [][FetchReadings => StatisticsOf(result'.data, AskedReadings)]_vars

\* a request has reported the statistics of the one committed reading although a
\* device it had looked up was deleted before the aggregate ran and another
\* reading was inserted and not yet committed
C28_Witness ==
    /\ pc = "returned"
    /\ pending # <<>>
    /\ \E i \in DOMAIN seen.devices :
            \A j \in DOMAIN devices : devices[j].id # seen.devices[i].id
    /\ ~IsRaised(result)
    /\ result.data # None
    /\ "reading_count" \in DOMAIN result.data
    /\ result.data.reading_count = 1

====
